---- MODULE Spec2Model ----
(***************************************************************************)
(* Peer reconciliation and health reporting of the distributed uptime      *)
(* probe: the Peer Fetcher and its failure counter, the Reconciler         *)
(* (sync_peers_to_db) over the Peer Store, and the per-peer Status         *)
(* Reporter with its retry loop.                                           *)
(*                                                                         *)
(* Strings that the code only compares are TLA+ strings; strings that the  *)
(* code parses (the description token, public_ip) are sequences of         *)
(* characters.  An Option is a sequence of length 0 (None) or 1 (Some).    *)
(***************************************************************************)
EXTENDS Integers, Sequences, FiniteSets, TLC

\* ------------------------------------------------------------------ bounds
\* longest peer list one fetch returns
MaxBatch == 2
\* capacity of the Peer Store: an insert into a full store fails
MaxNodes == 2
\* longest run of consecutive fetch failures that is followed
MaxFailRun == 11
\* most probe results recorded while one aggregate report cycle is under way
MaxCycleWrites == 1
\* most ticks of a task that are followed after the start of the process
MaxTicks == 2
\* longest public_ip text a descriptor carries
MaxAddrLen == 4

\* ------------------------------------------------------- program constants
max_failures == 5
max_retries == 3
DefaultPort == 11010
I32Max == 2147483647

\* ----------------------------------------------------------------- options
None == <<>>
Some(x) == <<x>>
IsSome(o) == Len(o) = 1
UnwrapOr(o, d) == IF Len(o) = 1 THEN o[1] ELSE d

\* ------------------------------------------------- integer <-> text (i32)
DigitChars == <<"0", "1", "2", "3", "4", "5", "6", "7", "8", "9">>
IsDigit(c) == \E k \in 1..10 : DigitChars[k] = c
DigitVal(c) == (CHOOSE k \in 1..10 : DigitChars[k] = c) - 1

RECURSIVE DigitsOf(_)
DigitsOf(n) ==
    IF n < 10 THEN <<DigitChars[n + 1]>>
    ELSE DigitsOf(n \div 10) \o <<DigitChars[(n % 10) + 1]>>

\* the digits of the magnitude of a negative i32 (unsigned_abs): of one more
\* than -(n + 1), so that the magnitude of i32::MIN is written too
DigitsOfAbs(n) ==
    LET m == 0 - (n + 1)
        hi == (m \div 10) + (IF m % 10 = 9 THEN 1 ELSE 0)
        lo == ((m % 10) + 1) % 10
    IN (IF hi = 0 THEN <<>> ELSE DigitsOf(hi)) \o <<DigitChars[lo + 1]>>

\* Display of an i32 that drops the sign
FormatI32Unsigned(n) == IF n < 0 THEN DigitsOfAbs(n) ELSE DigitsOf(n)

\* Display of an i32, as format!("{}", id) writes it
FormatI32(n) == IF n < 0 THEN <<"-">> \o DigitsOfAbs(n) ELSE DigitsOf(n)

I32Min == 0 - I32Max - 1

\* the digits accumulated as from_str_radix does: checked_mul(10), then
\* checked_add of the digit, or checked_sub after a minus sign; None on overflow
RECURSIVE DigitsValue(_, _, _)
DigitsValue(s, acc, neg) ==
    IF s = <<>> THEN Some(acc)
    ELSE LET d == DigitVal(s[1])
         IN IF neg
            THEN IF acc < (I32Min + d + 9) \div 10 THEN None
                 ELSE DigitsValue(Tail(s), (acc * 10) - d, TRUE)
            ELSE IF acc > (I32Max - d) \div 10 THEN None
                 ELSE DigitsValue(Tail(s), (acc * 10) + d, FALSE)

\* str::parse::<i32>: an optional sign, then one or more digits, in range
ParseI32(s) ==
    LET signed == Len(s) > 0 /\ s[1] \in {"+", "-"}
        digits == IF signed THEN Tail(s) ELSE s
    IN IF Len(digits) = 0 \/ \E k \in 1..Len(digits) : ~IsDigit(digits[k])
       THEN None
       ELSE DigitsValue(digits, 0, signed /\ s[1] = "-")

\* --------------------------------------------------- the correlation token
DescPrefix == "Auto-added from backend (ID: "
DescSuffix == ")"

\* format!("Auto-added from backend (ID: {})", id)
FormatDesc(id) == <<DescPrefix>> \o FormatI32(id) \o <<DescSuffix>>

StripPrefix(s) == IF Len(s) > 0 /\ s[1] = DescPrefix THEN Some(Tail(s)) ELSE None
StripSuffix(s) ==
    IF Len(s) > 0 /\ s[Len(s)] = DescSuffix THEN Some(SubSeq(s, 1, Len(s) - 1)) ELSE None

\* description.strip_prefix(..).and_then(|s| s.strip_suffix(")")) and parse::<i32>
ExtractBackendId(desc) ==
    LET p == StripPrefix(desc)
        q == IF IsSome(p) THEN StripSuffix(p[1]) ELSE None
    IN IF IsSome(q) THEN ParseI32(q[1]) ELSE None

\* ------------------------------------------------------------ descriptors
BackendIds == {1, 2}

BackendPeer(id, name, nname, nsecret, ip) ==
    [id |-> id, name |-> name, network_name |-> nname, network_secret |-> nsecret,
     public_ip |-> ip, protocol |-> None]

AddrHostPort == <<"h", ":", "7">>
AddrHostOnly == <<"h">>

\* the descriptors of two peers whose secrets change; one of them is renamed
\* and moves to another address, the other loses its address
SecretCatalogue ==
    {BackendPeer(1, "a", None, None, Some(AddrHostPort)),
     BackendPeer(1, "b", None, None, Some(AddrHostPort)),
     BackendPeer(1, "a", None, Some("s1"), Some(AddrHostOnly)),
     BackendPeer(2, "a", None, None, Some(AddrHostPort)),
     BackendPeer(2, "a", None, Some("s1"), Some(AddrHostPort)),
     BackendPeer(2, "a", None, Some("s1"), None)}

\* what the backend serves during one run: two of these descriptors
Catalogues == {S \in SUBSET SecretCatalogue : Cardinality(S) = 2}

RECURSIVE SeqsUpTo(_, _)
SeqsUpTo(S, n) ==
    IF n = 0 THEN {<<>>}
    ELSE LET shorter == SeqsUpTo(S, n - 1)
         IN shorter \cup {Append(q, x) : q \in {r \in shorter : Len(r) = n - 1}, x \in S}

\* the lists fetch_peers may return when the backend serves the descriptors of S
FetchLists(S) == SeqsUpTo(S, MaxBatch)

\* -------------------------------------------------------------- peer store
\* public_ip.split_once(':')
RECURSIVE ColonAt(_, _)
ColonAt(s, k) ==
    IF k > Len(s) THEN 0 ELSE IF s[k] = ":" THEN k ELSE ColonAt(s, k + 1)

\* ResolveAddress with the whole text kept as the host
ResolveAddressWholeHost(ip) ==
    LET c == ColonAt(ip, 1)
    IN IF c = 0 THEN [host |-> ip, port |-> DefaultPort]
       ELSE [host |-> ip,
             port |-> UnwrapOr(ParseI32(SubSeq(ip, c + 1, Len(ip))), DefaultPort)]

\* (host, port) of a public_ip: "IP:PORT" or just "IP"
ResolveAddress(ip) ==
    LET c == ColonAt(ip, 1)
    IN IF c = 0 THEN [host |-> ip, port |-> DefaultPort]
       ELSE [host |-> SubSeq(ip, 1, c - 1),
             port |-> UnwrapOr(ParseI32(SubSeq(ip, c + 1, Len(ip))), DefaultPort)]

\* CreateNodeRequest with an absent network_name left empty
CreateNodeRequestNoDefault(bp) ==
    LET a == ResolveAddress(bp.public_ip[1])
    IN [name |-> bp.name, host |-> a.host, port |-> a.port,
        protocol |-> UnwrapOr(bp.protocol, "tcp"),
        description |-> Some(FormatDesc(bp.id)),
        network_name |-> UnwrapOr(bp.network_name, ""),
        network_secret |-> bp.network_secret]

\* the CreateNodeRequest the Reconciler builds for a new descriptor
CreateNodeRequest(bp) ==
    LET a == ResolveAddress(bp.public_ip[1])
    IN [name |-> bp.name, host |-> a.host, port |-> a.port,
        protocol |-> UnwrapOr(bp.protocol, "tcp"),
        description |-> Some(FormatDesc(bp.id)),
        network_name |-> UnwrapOr(bp.network_name, "default"),
        network_secret |-> bp.network_secret]

\* the next row id of the table: one more than the largest in use
NextId(ns) ==
    IF ns = <<>> THEN 1
    ELSE 1 + (CHOOSE m \in {ns[k].id : k \in 1..Len(ns)} :
                 \A k \in 1..Len(ns) : ns[k].id <= m)

\* NodeOperations::create_node: the row a request becomes, not yet approved
CreateNode(ns, req) ==
    Append(ns, [id |-> NextId(ns), name |-> req.name, host |-> req.host,
                port |-> req.port, protocol |-> req.protocol,
                description |-> UnwrapOr(req.description, <<>>),
                network_name |-> req.network_name,
                network_secret |-> UnwrapOr(req.network_secret, ""),
                is_approved |-> FALSE])

\* NodeOperations::get_node_by_id
GetNodeById(ns, id) ==
    LET at == {k \in 1..Len(ns) : ns[k].id = id}
    IN IF at = {} THEN None ELSE Some(ns[CHOOSE k \in at : TRUE])

\* the backend-id keyed map of the nodes read at the start of a cycle: a later
\* row with the same backend id replaces an earlier one (HashMap::insert)
RECURSIVE CurrentNodeMapFrom(_, _, _)
CurrentNodeMapFrom(ns, k, m) ==
    IF k > Len(ns) THEN m
    ELSE LET b == ExtractBackendId(ns[k].description)
         IN CurrentNodeMapFrom(ns, k + 1,
                IF IsSome(b) THEN [x \in DOMAIN m \cup {b[1]} |-> IF x = b[1] THEN ns[k] ELSE m[x]]
                ELSE m)

CurrentNodeMap(ns) == CurrentNodeMapFrom(ns, 1, [x \in {} |-> 0])

\* an update that leaves the stored secret as it was
UpdateNodeKeepSecret(ns, id, secret, desc, name, nname) ==
    [k \in 1..Len(ns) |->
        IF ns[k].id # id THEN ns[k]
        ELSE [ns[k] EXCEPT !.description = UnwrapOr(desc, @),
                           !.name = UnwrapOr(name, @),
                           !.network_name = UnwrapOr(nname, @)]]

\* ActiveModel::update of the row `id`: only the fields that were Set change
UpdateNode(ns, id, secret, desc, name, nname) ==
    [k \in 1..Len(ns) |->
        IF ns[k].id # id THEN ns[k]
        ELSE [ns[k] EXCEPT !.network_secret = UnwrapOr(secret, @),
                           !.description = UnwrapOr(desc, @),
                           !.name = UnwrapOr(name, @),
                           !.network_name = UnwrapOr(nname, @)]]

\* is_approved = Set(true) on the row just created
ApproveNode(ns, id) ==
    [k \in 1..Len(ns) |-> IF ns[k].id = id THEN [ns[k] EXCEPT !.is_approved = TRUE] ELSE ns[k]]

\* DashMap::insert
CacheInsert(cache, id, bp) ==
    [x \in DOMAIN cache \cup {id} |-> IF x = id THEN bp ELSE cache[x]]

\* -------------------------------------------------------------- reconciler
\* what the calls made for one descriptor may fail at: a store call, or the
\* reload of the prober that follows a persisted change
StoreFaults == {"none", "get", "update", "create", "approve", "reload"}

Effect(kind, target, secret, desc, name, nname, reload, row) ==
    [kind |-> kind, target |-> target, secret |-> secret, desc |-> desc,
     name |-> name, nname |-> nname, reload |-> reload, row |-> row]

NoWrite(kind, target) == Effect(kind, target, None, None, None, None, FALSE, None)

\* SkipPeer with the missing address raised as an error of the whole cycle
SkipPeerAbort(st) == [st EXCEPT !.effect = NoWrite("skip", 0), !.ctl = "return_err"]

\* a descriptor without public_ip: warn and `continue`
SkipPeer(st) == [st EXCEPT !.effect = NoWrite("skip", 0)]

\* OnStoreError with the error propagated (`?`) out of sync_peers_to_db
OnStoreErrorAbort(st, target) ==
    [st EXCEPT !.effect = NoWrite("fault", target), !.ctl = "return_err"]

\* a store call failed (or found nothing): the error is logged, the loop goes on
OnStoreError(st, target) == [st EXCEPT !.effect = NoWrite("fault", target)]

\* the new-node branch, the same in both binaries but for the metadata map
InsertPeer(st, bp, fault, cap, withCache) ==
    IF ~IsSome(bp.public_ip) THEN SkipPeer(st)
    ELSE IF fault = "create" \/ Len(st.nodes) >= cap
         THEN OnStoreError(st, 0)
    ELSE LET created == CreateNode(st.nodes, CreateNodeRequest(bp))
             id == created[Len(created)].id
         IN IF fault = "approve"
            THEN OnStoreError([st EXCEPT !.nodes = created], 0)
            ELSE [st EXCEPT
                    !.nodes = ApproveNode(created, id),
                    !.cache = IF withCache THEN CacheInsert(st.cache, id, bp) ELSE @,
                    !.effect = Effect("insert", 0, None, None, None, None, FALSE,
                                      Some([GetNodeById(ApproveNode(created, id), id)[1]
                                               EXCEPT !.id = 0]))]

\* one iteration of `for backend_peer in backend_peers` of the node binary
SyncPeerNode(st, map, bp, fault, cap) ==
    IF bp.id \in DOMAIN map
    THEN LET existing_node == map[bp.id]
             st1 == [st EXCEPT !.cache = CacheInsert(st.cache, existing_node.id, bp)]
             backend_secret == UnwrapOr(bp.network_secret, "")
             needs_update == existing_node.network_secret # backend_secret
             expected_desc == FormatDesc(bp.id)
             desc_needs_update == existing_node.description # expected_desc
         IN IF ~(needs_update \/ desc_needs_update)
            THEN [st1 EXCEPT !.effect = NoWrite("noop", existing_node.id)]
            ELSE IF fault = "get" \/ ~IsSome(GetNodeById(st.nodes, existing_node.id))
                    \/ fault = "update"
            THEN OnStoreError(st1, existing_node.id)
            ELSE LET secret == IF needs_update THEN Some(backend_secret) ELSE None
                     desc == IF desc_needs_update THEN Some(expected_desc) ELSE None
                 IN [st1 EXCEPT
                        !.nodes = UpdateNode(st.nodes, existing_node.id, secret, desc, None, None),
                        !.reloads = IF needs_update THEN Append(@, existing_node.id) ELSE @,
                        !.effect = Effect("update", existing_node.id, secret, desc,
                                          None, None, needs_update, None)]
    ELSE InsertPeer(st, bp, fault, cap, TRUE)

\* one iteration of `for backend_peer in backend_peers` of DistributedProbe
SyncPeerProbe(st, map, bp, fault, cap) ==
    IF bp.id \in DOMAIN map
    THEN LET existing_node == map[bp.id]
             backend_secret == UnwrapOr(bp.network_secret, "")
             backend_network_name == UnwrapOr(bp.network_name, "default")
             needs_update == existing_node.name # bp.name
                             \/ existing_node.network_name # backend_network_name
                             \/ existing_node.network_secret # backend_secret
         IN IF ~needs_update
            THEN [st EXCEPT !.effect = NoWrite("noop", existing_node.id)]
            ELSE IF fault = "get" \/ ~IsSome(GetNodeById(st.nodes, existing_node.id))
                    \/ fault = "update"
            THEN OnStoreError(st, existing_node.id)
            ELSE [st EXCEPT
                    !.nodes = UpdateNode(st.nodes, existing_node.id, Some(backend_secret),
                                         None, Some(bp.name), Some(backend_network_name)),
                    !.reloads = Append(@, existing_node.id),
                    !.effect = Effect("update", existing_node.id, Some(backend_secret), None,
                                      Some(bp.name), Some(backend_network_name), TRUE, None)]
    ELSE InsertPeer(st, bp, fault, cap, FALSE)

\* ---- the reconciler of easytier-uptime/src/neo_uptime_node.rs, whose
\* descriptors carry host and port and whose rows are found by "host:port"
HostPortPeer(id, name, nname, nsecret, host, port) ==
    [id |-> id, name |-> name, network_name |-> nname, network_secret |-> nsecret,
     host |-> host, port |-> port, protocol |-> "tcp"]

\* format!("{}:{}", host, port)
HostPortKey(host, port) == host \o <<":">> \o FormatI32(port)

\* current_nodes collected into a map keyed by "host:port" (a later row with
\* the same key replaces an earlier one)
RECURSIVE HostPortNodeMapFrom(_, _, _)
HostPortNodeMapFrom(ns, k, m) ==
    IF k > Len(ns) THEN m
    ELSE LET key == HostPortKey(ns[k].host, ns[k].port)
         IN HostPortNodeMapFrom(ns, k + 1,
                [x \in DOMAIN m \cup {key} |-> IF x = key THEN ns[k] ELSE m[x]])

HostPortNodeMap(ns) == HostPortNodeMapFrom(ns, 1, [x \in {} |-> 0])

\* the CreateNodeRequest of that reconciler: host and port as the backend gave them
HostPortRequest(bp) ==
    [name |-> bp.name, host |-> bp.host, port |-> bp.port, protocol |-> bp.protocol,
     description |-> Some(FormatDesc(bp.id)),
     network_name |-> UnwrapOr(bp.network_name, "default"),
     network_secret |-> bp.network_secret]

\* one iteration of `for backend_peer in backend_peers` of that reconciler
SyncPeerHostPort(st, map, bp, fault, cap) ==
    IF HostPortKey(bp.host, bp.port) \in DOMAIN map
    THEN LET existing_node == map[HostPortKey(bp.host, bp.port)]
             st1 == [st EXCEPT !.cache = CacheInsert(st.cache, existing_node.id, bp)]
             backend_secret == UnwrapOr(bp.network_secret, "")
             needs_update == existing_node.network_secret # backend_secret
             expected_desc == FormatDesc(bp.id)
             desc_needs_update == existing_node.description # expected_desc
         IN IF ~(needs_update \/ desc_needs_update)
            THEN [st1 EXCEPT !.effect = NoWrite("noop", existing_node.id)]
            ELSE IF fault = "get" \/ ~IsSome(GetNodeById(st.nodes, existing_node.id))
                    \/ fault = "update"
            THEN OnStoreError(st1, existing_node.id)
            ELSE LET secret == IF needs_update THEN Some(backend_secret) ELSE None
                     desc == IF desc_needs_update THEN Some(expected_desc) ELSE None
                 IN [st1 EXCEPT
                        !.nodes = UpdateNode(st.nodes, existing_node.id, secret, desc, None, None),
                        !.reloads = IF needs_update THEN Append(@, existing_node.id) ELSE @,
                        !.effect = Effect("update", existing_node.id, secret, desc,
                                          None, None, needs_update, None)]
    ELSE IF fault = "create" \/ Len(st.nodes) >= cap
         THEN OnStoreError(st, 0)
    ELSE LET created == CreateNode(st.nodes, HostPortRequest(bp))
             id == created[Len(created)].id
         IN IF fault = "approve"
            THEN OnStoreError([st EXCEPT !.nodes = created], 0)
            ELSE [st EXCEPT
                    !.nodes = ApproveNode(created, id),
                    !.cache = CacheInsert(st.cache, id, bp),
                    !.effect = Effect("insert", 0, None, None, None, None, FALSE,
                                      Some([GetNodeById(ApproveNode(created, id), id)[1]
                                               EXCEPT !.id = 0]))]

Variants == {"node", "probe"}

SyncPeer(v, st, map, bp, fault, cap) ==
    CASE v = "node" -> SyncPeerNode(st, map, bp, fault, cap)
      [] v = "probe" -> SyncPeerProbe(st, map, bp, fault, cap)
      [] v = "hostport" -> SyncPeerHostPort(st, map, bp, fault, cap)

\* the map a cycle builds from the rows get_all_nodes returned
NodeMap(v, ns) == IF v = "hostport" THEN HostPortNodeMap(ns) ELSE CurrentNodeMap(ns)

\* the stores a cycle works on, what its last iteration did, and whether the
\* loop goes on ("continue") or the function returns an error ("return_err")
SyncState(ns, cache, rl) ==
    [nodes |-> ns, cache |-> cache, reloads |-> rl, effect |-> NoWrite("none", 0),
     ctl |-> "continue"]

\* the whole loop of sync_peers_to_db over `peers` from position k, no store fault
RECURSIVE SyncFrom(_, _, _, _, _)
SyncFrom(v, st, map, peers, k) ==
    IF k > Len(peers) \/ st.ctl # "continue" THEN st
    ELSE SyncFrom(v, SyncPeer(v, st, map, peers[k], "none", MaxNodes + MaxBatch), map, peers, k + 1)

\* sync_peers_to_db(db, health_checker, peer_metadata, peers) when no store call fails
SyncPeersToDb(v, ns, cache, peers) ==
    SyncFrom(v, SyncState(ns, cache, <<>>), NodeMap(v, ns), peers, 1)

\* ---------------------------------------------------------- backend client
\* StatusCode::is_success
IsSuccess(code) == code >= 200 /\ code <= 299

\* the canonical reason Display prints after the code
StatusReason(code) ==
    CASE code = 200 -> "OK"
      [] code = 401 -> "Unauthorized"
      [] code = 500 -> "Internal Server Error"
      [] OTHER -> "<unknown status code>"

HttpResponse(code, body, parses, success) ==
    [kind |-> "http", code |-> code, body |-> body, parses |-> parses, success |-> success]

\* the request was not answered: connection refused, or the 30 s timeout
TransportFailure == [kind |-> "transport", code |-> 0, body |-> <<>>, parses |-> FALSE, success |-> FALSE]

\* what the backend may answer to a heartbeat
Responses ==
    {HttpResponse(200, <<>>, TRUE, TRUE),
     HttpResponse(200, <<>>, TRUE, FALSE),
     HttpResponse(200, <<>>, FALSE, FALSE),
     HttpResponse(401, <<>>, FALSE, FALSE),
     HttpResponse(500, <<>>, FALSE, FALSE),
     HttpResponse(500, <<"4", "0", "1">>, FALSE, FALSE),
     TransportFailure}

\* report_status that does not look at the success flag of the body
ReportStatusAnyBody(resp) ==
    IF resp.kind = "transport"
    THEN [ok |-> FALSE, msg |-> <<"Failed to send heartbeat to backend">>]
    ELSE IF ~IsSuccess(resp.code)
    THEN [ok |-> FALSE,
          msg |-> <<"Failed to report heartbeat to backend: status=">>
                  \o FormatI32(resp.code) \o <<" ", StatusReason(resp.code), ", error=">>
                  \o resp.body]
    ELSE IF ~resp.parses
    THEN [ok |-> FALSE, msg |-> <<"Failed to parse heartbeat response">>]
    ELSE [ok |-> TRUE, msg |-> <<>>]

\* BackendClient::report_status: Ok, or Err with the text e.to_string() gives
\* (the outermost context of the error): digits are single characters, the
\* fixed phrases are one piece each
ReportStatus(resp) ==
    IF resp.kind = "transport"
    THEN [ok |-> FALSE, msg |-> <<"Failed to send heartbeat to backend">>]
    ELSE IF ~IsSuccess(resp.code)
    THEN [ok |-> FALSE,
          msg |-> <<"Failed to report heartbeat to backend: status=">>
                  \o FormatI32(resp.code) \o <<" ", StatusReason(resp.code), ", error=">>
                  \o resp.body]
    ELSE IF ~resp.parses
    THEN [ok |-> FALSE, msg |-> <<"Failed to parse heartbeat response">>]
    ELSE IF ~resp.success
    THEN [ok |-> FALSE, msg |-> <<"Backend returned success=false for heartbeat">>]
    ELSE [ok |-> TRUE, msg |-> <<>>]

\* ---------------------------------------------------------------- reporter
\* str::contains: `pat` occurs in `msg` as a contiguous run
Contains(msg, pat) ==
    \E k \in 1..(Len(msg) - Len(pat) + 1) : SubSeq(msg, k, k + Len(pat) - 1) = pat

\* IsAuthError looking for the wrong status
IsAuthErrorForbidden(msg) == Contains(msg, <<"4", "0", "3">>) \/ Contains(msg, <<"Forbidden">>)

\* e.to_string().contains("401") || e.to_string().contains("Unauthorized")
IsAuthError(msg) == Contains(msg, <<"4", "0", "1">>) \/ Contains(msg, <<"Unauthorized">>)

\* Exhausted with `>` for `>=`: one more retry
ExhaustedLate(count) == count > max_retries

\* retry_count >= max_retries
Exhausted(count) == count >= max_retries

\* 2_u64.pow(retry_count) seconds
BackoffSecs(count) == 2 ^ count

\* AfterGiveUp with the give-up leaving the cycle
AfterGiveUpEndCycle == "idle"

\* `break` out of the retry loop: on to the next peer of the snapshot
AfterGiveUp == "loop"

\* --------------------------------------------------------------- fetch_peers
\* an answer to GET /node-status: the ids of the nodes the backend lists
NodeStatusAnswer(kind, code, parses, node_ids) ==
    [kind |-> kind, code |-> code, parses |-> parses, node_ids |-> node_ids]

\* an answer to GET /nodes/{id}/private-info: the details of one node
PrivateInfoAnswer(kind, code, parses, info) ==
    [kind |-> kind, code |-> code, parses |-> parses, info |-> info]

\* the details the backend has for its two nodes
PrivateInfos ==
    [i \in BackendIds |->
        BackendPeer(i, "a", None, IF i = 1 THEN None ELSE Some("s1"), Some(AddrHostPort))]

\* what the backend may answer to GET /node-status
NodeStatusAnswers ==
    {NodeStatusAnswer("http", 200, TRUE, l) : l \in SeqsUpTo(BackendIds, MaxBatch)}
    \cup {NodeStatusAnswer("http", 500, FALSE, <<>>),
          NodeStatusAnswer("http", 200, FALSE, <<>>),
          NodeStatusAnswer("transport", 0, FALSE, <<>>)}

\* what the backend may answer to GET /nodes/{id}/private-info
PrivateInfoAnswers(id) ==
    {PrivateInfoAnswer("http", 200, TRUE, PrivateInfos[id]),
     PrivateInfoAnswer("http", 401, FALSE, PrivateInfos[id]),
     PrivateInfoAnswer("http", 200, FALSE, PrivateInfos[id]),
     PrivateInfoAnswer("transport", 0, FALSE, PrivateInfos[id])}

\* one answer for each listed node, in the order of the list
PrivateInfoAnswerSeqs(node_ids) ==
    {q \in SeqsUpTo(UNION {PrivateInfoAnswers(i) : i \in BackendIds}, Len(node_ids)) :
        /\ Len(q) = Len(node_ids)
        /\ \A k \in 1..Len(q) : q[k] \in PrivateInfoAnswers(node_ids[k])}

\* step 2 of fetch_peers for one node: the peer is pushed, or a warning is
\* logged and the loop goes on
PrivateInfoStep(answer) ==
    IF answer.kind = "transport" \/ ~IsSuccess(answer.code) \/ ~answer.parses
    THEN [ok |-> TRUE, peers |-> <<>>]
    ELSE [ok |-> TRUE, peers |-> <<answer.info>>]

RECURSIVE CollectPeers(_, _)
CollectPeers(infos, k) ==
    IF k > Len(infos) THEN [ok |-> TRUE, peers |-> <<>>]
    ELSE LET one == PrivateInfoStep(infos[k])
             rest == CollectPeers(infos, k + 1)
         IN IF ~one.ok THEN [ok |-> FALSE, peers |-> <<>>]
            ELSE IF ~rest.ok THEN rest
            ELSE [ok |-> TRUE, peers |-> one.peers \o rest.peers]

\* BackendClient::fetch_peers: Err, or Ok(peers)
FetchPeers(status, infos) ==
    IF status.kind = "transport" \/ ~IsSuccess(status.code) \/ ~status.parses
    THEN [ok |-> FALSE, peers |-> <<>>]
    ELSE CollectPeers(infos, 1)

\* no call of fetch_peers yet
NoFetch ==
    [called |-> FALSE, status |-> NodeStatusAnswer("http", 200, TRUE, <<>>), infos |-> <<>>,
     ok |-> FALSE, peers |-> <<>>]

\* the three health states
HealthStatuses == {"Healthy", "Unhealthy", "Unknown"}

\* what a probe may record for a peer: status and last response time (us)
ProbeOutcomes ==
    {[status |-> "Healthy", rtt |-> Some(5000)],
     [status |-> "Unhealthy", rtt |-> None],
     [status |-> "Unknown", rtt |-> Some(1999)]}

\* the local ids the prober monitors
MonitoredIds == {1, 2}

\* get_all_nodes_health_status: the entries of the registry, in any order
RECURSIVE Orderings(_)
Orderings(S) ==
    IF S = {} THEN {<<>>}
    ELSE UNION {{<<x>> \o q : q \in Orderings(S \ {x})} : x \in S}

Snapshots(h) ==
    {[k \in 1..Len(o) |-> [node_id |-> o[k], status |-> h[o[k]].status]] : o \in Orderings(DOMAIN h)}

\* (us / 1000) as i32, 0 when no response time is known
LatencyMs(rtt) == IF IsSome(rtt) THEN rtt[1] \div 1000 ELSE 0

\* "offline" for Unhealthy only
ReportedStatusUnlessUnhealthy(status) == IF status = "Unhealthy" THEN "offline" ELSE "online"

\* "online" for Healthy, "offline" otherwise
ReportedStatus(status) == IF status = "Healthy" THEN "online" ELSE "offline"

\* ------------------------------------------------ aggregate status report
\* microseconds in a millisecond
UsPerMs == 1000

\* i32 division: the quotient is truncated toward zero
DivI32(a, b) == IF a >= 0 THEN a \div b ELSE -((-a) \div b)

\* what a probe of the co-hosted prober may have recorded for a peer
AggregateOutcomes ==
    {[status |-> "Healthy", rtt |-> Some(5000)],
     [status |-> "Healthy", rtt |-> Some(7000)],
     [status |-> "Healthy", rtt |-> Some(9000)],
     [status |-> "Healthy", rtt |-> Some(1999)],
     [status |-> "Healthy", rtt |-> None],
     [status |-> "Unhealthy", rtt |-> Some(9000)]}

\* the local ids the co-hosted prober monitors
AggregateIds == {1, 2, 3}

\* the entries of the snapshot whose status is Healthy
HealthyEntries(statuses) == SelectSeq(statuses, LAMBDA e : e.status = "Healthy")

\* the same filter with the entries of every status let through
AllEntries(statuses) == statuses

\* healthy_nodes: the number of Healthy entries of the snapshot
HealthyNodes(statuses) == Len(HealthyEntries(statuses))

\* the entries whose response time goes into the average and the maximum
RttEntries(statuses) == HealthyEntries(statuses)

\* filter_map over the registry `h`: the last response times that are known
RECURSIVE RttValuesFrom(_, _, _)
RttValuesFrom(es, h, k) ==
    IF k > Len(es) THEN <<>>
    ELSE LET id == es[k].node_id
             rtt == IF id \in DOMAIN h THEN h[id].rtt ELSE None
         IN (IF IsSome(rtt) THEN <<rtt[1]>> ELSE <<>>) \o RttValuesFrom(es, h, k + 1)

RttValues(statuses, h) == RttValuesFrom(RttEntries(statuses), h, 1)

\* rtt_values.iter().map(|&rtt_us| rtt_us / 1000).sum()
RECURSIVE SumMs(_)
SumMs(vs) == IF vs = <<>> THEN 0 ELSE DivI32(Head(vs), UsPerMs) + SumMs(Tail(vs))

\* Iterator::max
RECURSIVE MaxOf(_)
MaxOf(vs) ==
    IF Len(vs) = 1 THEN vs[1]
    ELSE LET m == MaxOf(Tail(vs)) IN IF m >= Head(vs) THEN m ELSE Head(vs)

\* avg_response_time
AvgResponseTime(statuses, h) ==
    IF statuses = <<>> THEN None
    ELSE LET rtt_values == RttValues(statuses, h)
         IN IF rtt_values # <<>>
            THEN Some(DivI32(SumMs(rtt_values), Len(rtt_values)))
            ELSE None

\* max_response_time
MaxResponseTime(statuses, h) ==
    IF statuses = <<>> THEN None
    ELSE LET rtt_values == RttValues(statuses, h)
         IN IF rtt_values # <<>> THEN Some(DivI32(MaxOf(rtt_values), UsPerMs)) ELSE None

\* a status that tells the backend no peer is monitored
AggregateStatusNoPeers(total_nodes) == IF total_nodes = 0 THEN "offline" ELSE "online"

\* the overall status: both arms of the if give "online"
AggregateStatus(total_nodes) == IF total_nodes = 0 THEN "online" ELSE "online"

\* the locals of one aggregate cycle, before the snapshot is taken
NoAggregate ==
    [total_nodes |-> 0, healthy_nodes |-> 0,
     avg_seen |-> [x \in {} |-> 0], avg_response_time |-> None,
     max_seen |-> [x \in {} |-> 0], max_response_time |-> None,
     sent |-> <<>>, result |-> "none", writes |-> 0]

\* the arguments of report_status(0, status, latency_ms, peer_count)
Heartbeat(node_id, status, latency_ms, peer) ==
    [node_id |-> node_id, status |-> status, latency_ms |-> latency_ms, peer |-> peer]

\* ------------------------------------------------------------------- state
VARIABLES
    variant,               \* the reconciler that runs: "node", "probe" or "hostport"
    catalogue,             \* the descriptors the backend serves
    served,                \* Some(list) when the backend returns that list on every fetch
    stable,                \* TRUE once fetches and store calls no longer fail
    nodes,                 \* Peer Store: the shared_nodes rows, by local id
    peer_metadata,         \* PeerMetadataMap: local id -> BackendPeer
    fpc,                   \* Peer Fetcher position: "idle" or "sync"
    consecutive_failures,  \* the fetcher's failure counter
    current_nodes,         \* rows read by get_all_nodes at the start of the cycle
    backend_peers,         \* the fetched list being reconciled
    idx,                   \* next position of backend_peers
    reloads,               \* try_update_node calls of this cycle, in order
    reload_failed,         \* local ids whose last try_update_node call returned Err
    sync_failed,           \* the last call of sync_peers_to_db returned Err, which the loop logged
    effects,               \* what each processed descriptor did
    shadow,                \* the same cycle with no store call failing
    shadow_effects,        \* what each descriptor does in that cycle
    fail_run,              \* fetch failures since the last successful fetch
    warn_run,              \* warnings logged since the last successful fetch
    health,                \* Health Registry: local id -> status and last response time
    agg,                   \* the locals of the aggregate cycle and the heartbeats it sent
    rpc,                   \* Status Reporter position: "idle", "loop", "attempt", "sleep"
    all_statuses,          \* the snapshot the reporter iterates
    ri,                    \* next position of all_statuses
    cur,                   \* the report of the peer at hand: backend id, status, latency
    retry_count,           \* retry_count of the retry loop
    attempts,              \* the backend's answers to the calls for the peer at hand
    sleeps,                \* the backoff delays slept for the peer at hand, in seconds
    calls,                 \* per finished position: the number of report_status calls
    outcomes,              \* per finished position: how its iteration ended
    main_pc,               \* main: "start", "bind", "select", "shutdown", "exited"
    probe_pc,              \* DistributedProbe::start: "none", "test", "select", "done", "cancelled"
    connection,            \* result of the startup test_connection: "untested", "ok", "failed"
    fetch_task,            \* Peer Fetcher task: "none", "running", "ended", "cancelled"
    report_task,           \* Status Reporter task: "none", "running", "ended", "cancelled"
    server,                \* monitoring API task: "none", "serving", "ended", "stopped"
    fetch_ticks,           \* ticks of the Peer Fetcher since the start
    report_ticks,          \* ticks of the Status Reporter since the start
    shutdown_cause,        \* the branch of main's select that was taken
    last_fetch             \* the last call of fetch_peers: the backend's answers and the result

fetcher_vars ==
    <<nodes, peer_metadata, fpc, consecutive_failures, current_nodes, backend_peers,
      idx, reloads, reload_failed, sync_failed, effects, shadow, shadow_effects, fail_run, warn_run>>

reporter_vars ==
    <<health, agg, rpc, all_statuses, ri, cur, retry_count, attempts, sleeps, calls, outcomes>>

lifecycle_vars ==
    <<main_pc, probe_pc, connection, fetch_task, report_task, server,
      fetch_ticks, report_ticks, shutdown_cause>>

client_vars == <<last_fetch>>

vars == <<variant, catalogue, served, stable, lifecycle_vars, client_vars, fetcher_vars, reporter_vars>>

\* the process after a successful start: both tasks run, main awaits its select
Started ==
    /\ main_pc = "select"
    /\ probe_pc = IF variant = "probe" THEN "select" ELSE "none"
    /\ connection = "ok"
    /\ fetch_task = "running"
    /\ report_task = "running"
    /\ server = IF variant = "probe" THEN "serving" ELSE "none"
    /\ fetch_ticks = 0
    /\ report_ticks = 0
    /\ shutdown_cause = "none"
    /\ last_fetch = NoFetch

\* a backend whose list changes from fetch to fetch, a store that may fail at any time
Unsettled == served = None /\ stable = FALSE

\* the store calls that may fail now, and the rows the store takes now
FaultsNow == IF stable THEN {"none"} ELSE StoreFaults
CapNow == IF stable THEN MaxNodes + MaxBatch ELSE MaxNodes

EmptyCache == [x \in {} |-> 0]

\* a row the admin surface created: no correlation token
AdminNode ==
    [id |-> 1, name |-> "adm", host |-> AddrHostOnly, port |-> DefaultPort, protocol |-> "tcp",
     description |-> <<"x">>, network_name |-> "default", network_secret |-> "",
     is_approved |-> TRUE]

\* the stores the process may start on
InitStores == {<<>>, <<AdminNode>>}

InitFetcher ==
    /\ peer_metadata = EmptyCache
    /\ fpc = "idle"
    /\ consecutive_failures = 0
    /\ current_nodes = <<>>
    /\ backend_peers = <<>>
    /\ idx = 1
    /\ reloads = <<>>
    /\ reload_failed = {}
    /\ sync_failed = FALSE
    /\ effects = <<>>
    /\ shadow = SyncState(<<>>, EmptyCache, <<>>)
    /\ shadow_effects = <<>>
    /\ fail_run = 0
    /\ warn_run = 0

\* CountFailure with `>` for `>=`
CountFailureLate(count) ==
    LET n == count + 1
    IN IF n > max_failures THEN [count |-> 0, warned |-> TRUE]
       ELSE [count |-> n, warned |-> FALSE]

\* the Err arm of the fetch: count the failure, warn and reset at max_failures
CountFailure(count) ==
    LET n == count + 1
    IN IF n >= max_failures THEN [count |-> 0, warned |-> TRUE]
       ELSE [count |-> n, warned |-> FALSE]

\* AfterFetchError with the task giving up on a failed fetch
AfterFetchErrorStop == "stopped"

\* the Err arm of the fetch ends and the loop goes round: back to the ticker
AfterFetchError == "idle"

\* AfterSyncError with the task giving up on a failed cycle
AfterSyncErrorStop == "stopped"

\* sync_peers_to_db returned Err: it is logged and the loop goes round
AfterSyncError == "idle"

\* ticker.tick, then fetch_peers returns Err
FetchFail ==
    /\ fpc = "idle"
    /\ ~stable
    /\ fail_run < MaxFailRun
    /\ IF variant # "probe"
       THEN LET c == CountFailure(consecutive_failures)
            IN /\ consecutive_failures' = c.count
               /\ warn_run' = IF c.warned THEN warn_run + 1 ELSE warn_run
       ELSE UNCHANGED <<consecutive_failures, warn_run>>
    /\ fail_run' = fail_run + 1
    /\ fpc' = AfterFetchError
    /\ UNCHANGED <<variant, catalogue, served, stable, lifecycle_vars, client_vars, reporter_vars, nodes, peer_metadata, reload_failed, sync_failed, current_nodes, backend_peers, idx,
                   reloads, effects, shadow, shadow_effects>>

\* ticker.tick, fetch_peers returns Ok(peers), get_all_nodes fails: sync returns Err
FetchOkReadFail ==
    /\ fpc = "idle"
    /\ ~stable
    /\ consecutive_failures' = 0
    /\ fail_run' = 0
    /\ warn_run' = 0
    /\ sync_failed' = TRUE
    /\ fpc' = AfterSyncError
    /\ UNCHANGED <<variant, catalogue, served, stable, lifecycle_vars, client_vars, reporter_vars, nodes, peer_metadata, reload_failed, current_nodes, backend_peers, idx,
                   reloads, effects, shadow, shadow_effects>>

\* ticker.tick, fetch_peers returns Ok(peers), get_all_nodes succeeds
FetchOk ==
    /\ fpc = "idle"
    /\ \E peers \in IF IsSome(served) THEN {served[1]} ELSE FetchLists(catalogue) :
        /\ backend_peers' = peers
        /\ current_nodes' = nodes
        /\ idx' = 1
        /\ reloads' = <<>>
        /\ effects' = <<>>
        /\ shadow' = SyncState(nodes, peer_metadata, <<>>)
        /\ shadow_effects' = <<>>
    /\ fpc' = "sync"
    /\ consecutive_failures' = 0
    /\ fail_run' = 0
    /\ warn_run' = 0
    /\ sync_failed' = FALSE
    /\ UNCHANGED <<variant, catalogue, served, stable, lifecycle_vars, client_vars, reporter_vars, nodes, peer_metadata, reload_failed>>

\* try_update_node, when this iteration called it: Err is logged and the
\* peer keeps the configuration the prober had, Ok makes the prober load the row
AfterReload(failed, before, after, fault) ==
    IF Len(after) = Len(before) THEN failed
    ELSE IF fault = "reload" THEN failed \cup {after[Len(after)]}
    ELSE failed \ {after[Len(after)]}

\* one descriptor of the loop of sync_peers_to_db
SyncStep ==
    /\ fpc = "sync"
    /\ idx <= Len(backend_peers)
    /\ \E map \in {NodeMap(variant, current_nodes)}, fault \in FaultsNow :
        \E st \in {SyncPeer(variant, SyncState(nodes, peer_metadata, reloads), map,
                            backend_peers[idx], fault, CapNow)},
           sh \in {SyncPeer(variant, shadow, map, backend_peers[idx], "none",
                            MaxNodes + MaxBatch)} :
           /\ nodes' = st.nodes
           /\ peer_metadata' = st.cache
           /\ reloads' = st.reloads
           /\ reload_failed' = AfterReload(reload_failed, reloads, st.reloads, fault)
           /\ effects' = Append(effects, st.effect)
           /\ shadow' = sh
           /\ shadow_effects' = Append(shadow_effects, sh.effect)
           /\ fpc' = IF st.ctl = "continue" THEN "sync" ELSE AfterSyncError
           /\ sync_failed' = (st.ctl # "continue")
    /\ idx' = idx + 1
    /\ UNCHANGED <<variant, catalogue, served, stable, lifecycle_vars, client_vars, reporter_vars, consecutive_failures, current_nodes, backend_peers,
                   fail_run, warn_run>>

\* RetainNodes with the rows of peers that left the fetched list removed
PruneAbsent(ns, peers) ==
    SelectSeq(ns, LAMBDA n :
        ~IsSome(ExtractBackendId(n.description))
        \/ \E k \in 1..Len(peers) : peers[k].id = ExtractBackendId(n.description)[1])

\* after the loop: rows whose backend id is not in the fetched list are kept
RetainNodes(ns, peers) == ns

\* the loop is over: sync_peers_to_db returns Ok(()) and the fetcher awaits its tick
SyncReturn ==
    /\ fpc = "sync"
    /\ idx > Len(backend_peers)
    /\ nodes' = RetainNodes(nodes, backend_peers)
    /\ fpc' = "idle"
    /\ current_nodes' = <<>>
    /\ backend_peers' = <<>>
    /\ idx' = 1
    /\ reloads' = <<>>
    /\ effects' = <<>>
    /\ shadow' = SyncState(<<>>, EmptyCache, <<>>)
    /\ shadow_effects' = <<>>
    /\ UNCHANGED <<variant, catalogue, served, stable, lifecycle_vars, client_vars, reporter_vars, peer_metadata, reload_failed, sync_failed, consecutive_failures, fail_run, warn_run>>

\* ticker.tick, then fetch_peers with the answers of the backend, then the
\* arm of the match: Ok resets the counter and enters sync_peers_to_db, Err
\* counts the failure
FetchCall ==
    /\ fpc = "idle"
    /\ \E status \in NodeStatusAnswers :
        \E infos \in PrivateInfoAnswerSeqs(status.node_ids) :
        \E res \in {FetchPeers(status, infos)} :
           /\ last_fetch' = [called |-> TRUE, status |-> status, infos |-> infos,
                             ok |-> res.ok, peers |-> res.peers]
           /\ IF res.ok
              THEN /\ backend_peers' = res.peers
                   /\ current_nodes' = nodes
                   /\ idx' = 1
                   /\ reloads' = <<>>
                   /\ effects' = <<>>
                   /\ shadow' = SyncState(nodes, peer_metadata, <<>>)
                   /\ shadow_effects' = <<>>
                   /\ fpc' = "sync"
                   /\ consecutive_failures' = 0
                   /\ fail_run' = 0
                   /\ warn_run' = 0
                   /\ sync_failed' = FALSE
              ELSE /\ fail_run < MaxFailRun
                   /\ LET c == CountFailure(consecutive_failures)
                      IN /\ consecutive_failures' = c.count
                         /\ warn_run' = IF c.warned THEN warn_run + 1 ELSE warn_run
                   /\ fail_run' = fail_run + 1
                   /\ fpc' = AfterFetchError
                   /\ UNCHANGED <<current_nodes, backend_peers, idx, reloads, effects, shadow,
                                  shadow_effects, sync_failed>>
    /\ UNCHANGED <<variant, catalogue, served, stable, lifecycle_vars, reporter_vars, nodes,
                   peer_metadata, reload_failed>>

\* the fetcher with the calls of fetch_peers spelled out
FetchCallNext == FetchCall \/ SyncStep \/ SyncReturn

FetcherNext == FetchFail \/ FetchOkReadFail \/ FetchOk \/ SyncStep \/ SyncReturn

\* ---------------------------------------------------------- status reporter
NoReport == [backend_peer_id |-> 0, status |-> "offline", latency_ms |-> 0]

InitReporter ==
    /\ health = [x \in {} |-> 0]
    /\ agg = NoAggregate
    /\ rpc = "idle"
    /\ all_statuses = <<>>
    /\ ri = 1
    /\ cur = NoReport
    /\ retry_count = 0
    /\ attempts = <<>>
    /\ sleeps = <<>>
    /\ calls = <<>>
    /\ outcomes = <<>>

\* the prober records the outcome of a probe of one peer
ProbeWrite ==
    /\ \E id \in MonitoredIds, o \in ProbeOutcomes :
          health' = [x \in DOMAIN health \cup {id} |-> IF x = id THEN o ELSE health[x]]
    /\ UNCHANGED <<variant, catalogue, served, stable, lifecycle_vars, client_vars, fetcher_vars, agg, rpc, all_statuses, ri, cur,
                   retry_count, attempts, sleeps, calls, outcomes>>

\* ReportTick with every entry of the registry listed twice
ReportTickTwice ==
    /\ rpc = "idle"
    /\ \E snap \in Snapshots(health) : all_statuses' = snap \o snap
    /\ ri' = 1
    /\ rpc' = "loop"
    /\ calls' = <<>>
    /\ outcomes' = <<>>
    /\ UNCHANGED <<variant, catalogue, served, stable, lifecycle_vars, client_vars, fetcher_vars, health, agg, cur, retry_count, attempts, sleeps>>

\* ticker.tick, then the snapshot of the registry is taken
ReportTick ==
    /\ rpc = "idle"
    /\ all_statuses' \in Snapshots(health)
    /\ ri' = 1
    /\ rpc' = "loop"
    /\ calls' = <<>>
    /\ outcomes' = <<>>
    /\ UNCHANGED <<variant, catalogue, served, stable, lifecycle_vars, client_vars, fetcher_vars, health, agg, cur, retry_count, attempts, sleeps>>

\* the for loop is over: the snapshot and the locals are dropped, back to the ticker
ReportCycleEnd ==
    /\ rpc = "loop"
    /\ ri > Len(all_statuses)
    /\ rpc' = "idle"
    /\ all_statuses' = <<>>
    /\ ri' = 1
    /\ cur' = NoReport
    /\ retry_count' = 0
    /\ attempts' = <<>>
    /\ sleeps' = <<>>
    /\ calls' = <<>>
    /\ outcomes' = <<>>
    /\ UNCHANGED <<variant, catalogue, served, stable, lifecycle_vars, client_vars, fetcher_vars, health, agg>>

\* a backend id for every row: 0 when the description yields none
BackendPeerIdOrDefault(node_details) ==
    IF IsSome(node_details)
    THEN Some(UnwrapOr(ExtractBackendId(node_details[1].description), 0))
    ELSE None

\* the backend id in the description of the row that was read, if there is one
BackendPeerId(node_details) ==
    IF IsSome(node_details) THEN ExtractBackendId(node_details[1].description)
    ELSE None

\* the head of one iteration: response time, status, then the row of the peer
\* and the backend id in its description; `continue` when one is missing
ResolvePeer ==
    /\ rpc = "loop"
    /\ ri <= Len(all_statuses)
    /\ \E db_ok \in BOOLEAN :
        LET node_id == all_statuses[ri].node_id
            rtt_us == IF node_id \in DOMAIN health THEN health[node_id].rtt ELSE None
            node_details == GetNodeById(nodes, node_id)
            backend_peer_id == BackendPeerId(node_details)
            skip == IF ~db_ok THEN "lookup_err"
                    ELSE IF ~IsSome(node_details) THEN "missing"
                    ELSE IF ~IsSome(backend_peer_id) THEN "no_token"
                    ELSE "none"
        IN IF skip # "none"
           THEN /\ ri' = ri + 1
                /\ calls' = Append(calls, 0)
                /\ outcomes' = Append(outcomes, skip)
                /\ UNCHANGED <<rpc, cur, retry_count, attempts, sleeps>>
           ELSE /\ cur' = [backend_peer_id |-> backend_peer_id[1],
                           status |-> ReportedStatus(all_statuses[ri].status),
                           latency_ms |-> LatencyMs(rtt_us)]
                /\ retry_count' = 0
                /\ attempts' = <<>>
                /\ sleeps' = <<>>
                /\ rpc' = "attempt"
                /\ UNCHANGED <<ri, calls, outcomes>>
    /\ UNCHANGED <<variant, catalogue, served, stable, lifecycle_vars, client_vars, fetcher_vars, health, agg, all_statuses>>

\* one pass of the retry loop: report_status and the match on its result
AttemptReport ==
    /\ rpc = "attempt"
    /\ \E resp \in Responses :
        \E res \in {ReportStatus(resp)}, n \in {retry_count + 1}, tried \in {Append(attempts, resp)} :
        \E auth \in {~res.ok /\ IsAuthError(res.msg)} :
           /\ attempts' = tried
           /\ IF res.ok
              THEN /\ rpc' = "loop"
                   /\ ri' = ri + 1
                   /\ calls' = Append(calls, Len(tried))
                   /\ outcomes' = Append(outcomes, "ok")
                   /\ UNCHANGED <<retry_count, sleeps>>
              ELSE /\ retry_count' = n
                   /\ IF auth \/ Exhausted(n)
                      THEN /\ rpc' = AfterGiveUp
                           /\ ri' = ri + 1
                           /\ calls' = Append(calls, Len(tried))
                           /\ outcomes' = Append(outcomes,
                                  IF auth THEN "unauthorized" ELSE "exhausted")
                           /\ UNCHANGED sleeps
                      ELSE /\ rpc' = "sleep"
                           /\ sleeps' = Append(sleeps, BackoffSecs(n))
                           /\ UNCHANGED <<ri, calls, outcomes>>
    /\ UNCHANGED <<variant, catalogue, served, stable, lifecycle_vars, client_vars, fetcher_vars, health, agg, all_statuses, cur>>

\* BackoffElapsed with a sleep that never returns
BackoffNeverElapsed ==
    /\ rpc = "sleep"
    /\ rpc' = "sleep"
    /\ UNCHANGED <<variant, catalogue, served, stable, lifecycle_vars, client_vars, fetcher_vars, health, agg, all_statuses, ri, cur,
                   retry_count, attempts, sleeps, calls, outcomes>>

\* the backoff sleep is over: next pass of the retry loop
BackoffElapsed ==
    /\ rpc = "sleep"
    /\ rpc' = "attempt"
    /\ UNCHANGED <<variant, catalogue, served, stable, lifecycle_vars, client_vars, fetcher_vars, health, agg, all_statuses, ri, cur,
                   retry_count, attempts, sleeps, calls, outcomes>>

ReporterNext ==
    ProbeWrite \/ ReportTick \/ ReportCycleEnd \/ ResolvePeer \/ AttemptReport \/ BackoffElapsed

\* ------------------------------------------------ aggregate status reporter
\* the prober of the co-hosted probe records the outcome of a probe of one
\* peer, at most MaxCycleWrites times while a report cycle is under way
AggProbeWrite ==
    /\ rpc # "idle" => agg.writes < MaxCycleWrites
    /\ \E id \in AggregateIds, o \in AggregateOutcomes :
          health' = [x \in DOMAIN health \cup {id} |-> IF x = id THEN o ELSE health[x]]
    /\ agg' = IF rpc = "idle" THEN agg ELSE [agg EXCEPT !.writes = @ + 1]
    /\ UNCHANGED <<variant, catalogue, served, stable, lifecycle_vars, client_vars, fetcher_vars, rpc, all_statuses, ri, cur,
                   retry_count, attempts, sleeps, calls, outcomes>>

\* ticker.tick, then the snapshot is taken and its entries are counted
AggTick ==
    /\ rpc = "idle"
    /\ \E snap \in Snapshots(health) :
        /\ all_statuses' = snap
        /\ agg' = [NoAggregate EXCEPT !.total_nodes = Len(snap),
                                      !.healthy_nodes = HealthyNodes(snap)]
    /\ rpc' = "avg"
    /\ UNCHANGED <<variant, catalogue, served, stable, lifecycle_vars, client_vars, fetcher_vars, health, ri, cur,
                   retry_count, attempts, sleeps, calls, outcomes>>

\* avg_response_time is computed from the records of the registry as they are now
AggAverage ==
    /\ rpc = "avg"
    /\ agg' = [agg EXCEPT !.avg_seen = health,
                          !.avg_response_time = AvgResponseTime(all_statuses, health)]
    /\ rpc' = "max"
    /\ UNCHANGED <<variant, catalogue, served, stable, lifecycle_vars, client_vars, fetcher_vars, health, all_statuses, ri, cur,
                   retry_count, attempts, sleeps, calls, outcomes>>

\* max_response_time is computed from the records of the registry as they are now
AggMaximum ==
    /\ rpc = "max"
    /\ agg' = [agg EXCEPT !.max_seen = health,
                          !.max_response_time = MaxResponseTime(all_statuses, health)]
    /\ rpc' = "report"
    /\ UNCHANGED <<variant, catalogue, served, stable, lifecycle_vars, client_vars, fetcher_vars, health, all_statuses, ri, cur,
                   retry_count, attempts, sleeps, calls, outcomes>>

\* AfterAggregateReport with a failed report sent again
AfterAggregateReportRetry(ok) == IF ok THEN "reported" ELSE "report"

\* both arms of the match on the result only log: the loop body is over
AfterAggregateReport(ok) == "reported"

\* status, peer_count, latency_ms, then report_status(0, ...) and the match on its result
AggReport ==
    /\ rpc = "report"
    /\ \E resp \in Responses :
        LET status == AggregateStatus(agg.total_nodes)
            peer_count == agg.healthy_nodes
            latency_ms == UnwrapOr(agg.avg_response_time, 0)
        IN /\ agg' = [agg EXCEPT !.sent = Append(@, Heartbeat(0, status, latency_ms, peer_count)),
                                 !.result = IF ReportStatus(resp).ok THEN "ok" ELSE "err"]
           /\ rpc' = AfterAggregateReport(ReportStatus(resp).ok)
    /\ UNCHANGED <<variant, catalogue, served, stable, lifecycle_vars, client_vars, fetcher_vars, health, all_statuses, ri, cur,
                   retry_count, attempts, sleeps, calls, outcomes>>

\* the body of the loop is over: the locals are dropped, back to the ticker
AggCycleEnd ==
    /\ rpc = "reported"
    /\ rpc' = "idle"
    /\ all_statuses' = <<>>
    /\ agg' = NoAggregate
    /\ UNCHANGED <<variant, catalogue, served, stable, lifecycle_vars, client_vars, fetcher_vars, health, ri, cur,
                   retry_count, attempts, sleeps, calls, outcomes>>

AggregateNext ==
    AggProbeWrite \/ AggTick \/ AggAverage \/ AggMaximum \/ AggReport \/ AggCycleEnd

\* ------------------------------------------------- start, tasks, shutdown
\* BackendClient::test_connection: Ok exactly for an answer with a 2xx status
TestConnection(resp) == resp.kind # "transport" /\ IsSuccess(resp.code)

\* the process has not exited: its tasks are polled
Alive == main_pc # "exited"

\* main returned: the runtime is dropped and with it every spawned task
TaskAfterExit(t) == IF t = "running" THEN "cancelled" ELSE t

ProcessExit ==
    /\ main_pc' = "exited"
    /\ fetch_task' = TaskAfterExit(fetch_task)
    /\ report_task' = TaskAfterExit(report_task)
    /\ server' = IF server = "serving" THEN "stopped" ELSE server
    /\ probe_pc' = IF probe_pc \in {"test", "select"} THEN "cancelled" ELSE probe_pc

Rest == <<variant, catalogue, served, stable, client_vars, fetcher_vars, reporter_vars>>

\* neo-uptime-node main: test_connection, then both tasks are spawned; an Err
\* leaves main through `?`
NodeTestConnection ==
    /\ variant = "node"
    /\ main_pc = "start"
    /\ \E resp \in Responses :
        IF TestConnection(resp)
        THEN /\ connection' = "ok"
             /\ fetch_task' = "running"
             /\ report_task' = "running"
             /\ main_pc' = "select"
             /\ UNCHANGED <<probe_pc, server, shutdown_cause>>
        ELSE /\ connection' = "failed"
             /\ shutdown_cause' = "error"
             /\ ProcessExit
    /\ UNCHANGED <<fetch_ticks, report_ticks, Rest>>

\* run_distributed_mode: the task that runs DistributedProbe::start is spawned
CoHostedSpawnProbe ==
    /\ variant = "probe"
    /\ main_pc = "start"
    /\ probe_pc' = "test"
    /\ main_pc' = "bind"
    /\ UNCHANGED <<connection, fetch_task, report_task, server, fetch_ticks, report_ticks,
                   shutdown_cause, Rest>>

\* run_distributed_mode: the listener is bound and the monitoring API is
\* served by a task of its own; a bind error leaves main through `?`
CoHostedServe ==
    /\ main_pc = "bind"
    /\ \E bound \in BOOLEAN :
        IF bound
        THEN /\ server' = "serving"
             /\ main_pc' = "select"
             /\ UNCHANGED <<probe_pc, fetch_task, report_task, shutdown_cause>>
        ELSE /\ shutdown_cause' = "error"
             /\ ProcessExit
    /\ UNCHANGED <<connection, fetch_ticks, report_ticks, Rest>>

\* DistributedProbe::start: test_connection, then both tasks are spawned; an
\* Err ends start, and with it the task main spawned for it
ProbeTestConnection ==
    /\ Alive
    /\ probe_pc = "test"
    /\ \E resp \in Responses :
        IF TestConnection(resp)
        THEN /\ connection' = "ok"
             /\ fetch_task' = "running"
             /\ report_task' = "running"
             /\ probe_pc' = "select"
        ELSE /\ connection' = "failed"
             /\ probe_pc' = "done"
             /\ UNCHANGED <<fetch_task, report_task>>
    /\ UNCHANGED <<main_pc, server, fetch_ticks, report_ticks, shutdown_cause, Rest>>

\* ticker.tick() of the Peer Fetcher returns: one more cycle of its loop
FetchTaskTick ==
    /\ Alive
    /\ fetch_task = "running"
    /\ fetch_ticks < MaxTicks
    /\ fetch_ticks' = fetch_ticks + 1
    /\ UNCHANGED <<main_pc, probe_pc, connection, fetch_task, report_task, server,
                   report_ticks, shutdown_cause, Rest>>

\* ticker.tick() of the Status Reporter returns: one more cycle of its loop
ReportTaskTick ==
    /\ Alive
    /\ report_task = "running"
    /\ report_ticks < MaxTicks
    /\ report_ticks' = report_ticks + 1
    /\ UNCHANGED <<main_pc, probe_pc, connection, fetch_task, report_task, server,
                   fetch_ticks, shutdown_cause, Rest>>

\* the Peer Fetcher task ends, which its loop does by a panic only
FetchTaskEnds ==
    /\ Alive
    /\ fetch_task = "running"
    /\ fetch_task' = "ended"
    /\ UNCHANGED <<main_pc, probe_pc, connection, report_task, server, fetch_ticks,
                   report_ticks, shutdown_cause, Rest>>

\* the Status Reporter task ends, which its loop does by a panic only
ReportTaskEnds ==
    /\ Alive
    /\ report_task = "running"
    /\ report_task' = "ended"
    /\ UNCHANGED <<main_pc, probe_pc, connection, fetch_task, server, fetch_ticks,
                   report_ticks, shutdown_cause, Rest>>

\* the task that serves the monitoring API ends of its own
ServerEnds ==
    /\ Alive
    /\ server = "serving"
    /\ server' = "ended"
    /\ UNCHANGED <<main_pc, probe_pc, connection, fetch_task, report_task, fetch_ticks,
                   report_ticks, shutdown_cause, Rest>>

\* DistributedProbe::start: the select over the two handles returns when one
\* of the tasks has ended; start returns Ok, the other handle is dropped
ProbeSelect ==
    /\ Alive
    /\ probe_pc = "select"
    /\ fetch_task = "ended" \/ report_task = "ended"
    /\ probe_pc' = "done"
    /\ UNCHANGED <<main_pc, connection, fetch_task, report_task, server, fetch_ticks,
                   report_ticks, shutdown_cause, Rest>>

\* a select of the node binary that awaits the handle of the fetcher only
CompletedHandlesFetchOnly ==
    IF variant = "probe"
    THEN {c \in {"probe", "server"} :
             \/ c = "probe" /\ probe_pc = "done"
             \/ c = "server" /\ server = "ended"}
    ELSE {c \in {"fetch"} : fetch_task = "ended"}

\* the handles main's select awaits that have completed
CompletedHandles ==
    IF variant = "probe"
    THEN {c \in {"probe", "server"} :
             \/ c = "probe" /\ probe_pc = "done"
             \/ c = "server" /\ server = "ended"}
    ELSE {c \in {"fetch", "report"} :
             \/ c = "fetch" /\ fetch_task = "ended"
             \/ c = "report" /\ report_task = "ended"}

\* main's select takes the branch of a handle that has completed
MainSelectHandle ==
    /\ main_pc = "select"
    /\ \E c \in CompletedHandles : shutdown_cause' = c
    /\ main_pc' = "shutdown"
    /\ UNCHANGED <<probe_pc, connection, fetch_task, report_task, server, fetch_ticks,
                   report_ticks, Rest>>

\* main's select takes the branch of ctrl_c
MainSelectSignal ==
    /\ main_pc = "select"
    /\ shutdown_cause' = "ctrl_c"
    /\ main_pc' = "shutdown"
    /\ UNCHANGED <<probe_pc, connection, fetch_task, report_task, server, fetch_ticks,
                   report_ticks, Rest>>

\* "Shutting down gracefully...", then main returns
MainShutdown ==
    /\ main_pc = "shutdown"
    /\ ProcessExit
    /\ UNCHANGED <<connection, fetch_ticks, report_ticks, shutdown_cause, Rest>>

LifecycleNext ==
    \/ NodeTestConnection \/ CoHostedSpawnProbe \/ CoHostedServe \/ ProbeTestConnection
    \/ FetchTaskTick \/ ReportTaskTick \/ FetchTaskEnds \/ ReportTaskEnds \/ ServerEnds
    \/ ProbeSelect \/ MainSelectHandle \/ MainSelectSignal \/ MainShutdown

\* ---------------------------------------------------------- specifications
\* the Peer Fetcher and the Reconciler of either binary, from a fresh start
InitSync ==
    /\ Unsettled
    /\ variant \in Variants
    /\ catalogue \in Catalogues
    /\ nodes \in InitStores
    /\ Started
    /\ InitFetcher
    /\ InitReporter

SpecSync == InitSync /\ [][FetcherNext]_vars

\* the descriptors of two peers behind one address, one of which is also
\* served at the default port, with and without a secret
HostPortCatalogue ==
    {HostPortPeer(i, "a", None, s, AddrHostOnly, 7) : i \in BackendIds, s \in {None, Some("s1")}}
    \cup {HostPortPeer(1, "a", None, None, AddrHostOnly, DefaultPort)}

\* the Peer Fetcher and the Reconciler of easytier-uptime/src/neo_uptime_node.rs
InitHostPort ==
    /\ Unsettled
    /\ variant = "hostport"
    /\ catalogue \in {S \in SUBSET HostPortCatalogue : Cardinality(S) = 2}
    /\ nodes \in InitStores
    /\ Started
    /\ InitFetcher
    /\ InitReporter

SpecHostPort == InitHostPort /\ [][FetcherNext]_vars

\* a row the Reconciler created for backend id `b`
SyncedNode(id, b) ==
    [GetNodeById(ApproveNode(CreateNode(<<>>,
        CreateNodeRequest(BackendPeer(b, "a", None, None, Some(AddrHostPort)))), 1), 1)[1]
     EXCEPT !.id = id]

\* a row whose description has the prefix and the suffix of the token around
\* text that is no number
UnparsedNode == [SyncedNode(1, 1) EXCEPT !.description = <<DescPrefix, "x", DescSuffix>>]

\* the stores the per-peer reporter may find: in the last one the row of
\* local id 2 is missing
ReportStores ==
    {<<SyncedNode(1, 1), SyncedNode(2, 2)>>,
     <<AdminNode, SyncedNode(2, 1)>>,
     <<UnparsedNode>>}

\* the per-peer Status Reporter of the node binary and the prober, on a
\* store that no cycle of the Reconciler changes meanwhile
InitReport ==
    /\ Unsettled
    /\ variant = "node"
    /\ catalogue = {}
    /\ Started
    /\ InitFetcher
    /\ nodes \in ReportStores
    /\ InitReporter

SpecReport == InitReport /\ [][ReporterNext]_vars

\* the aggregate Status Reporter of the co-hosted probe and its prober
InitAggregate ==
    /\ Unsettled
    /\ variant = "probe"
    /\ catalogue = {}
    /\ nodes = <<>>
    /\ Started
    /\ InitFetcher
    /\ InitReporter

SpecAggregate == InitAggregate /\ [][AggregateNext]_vars

\* the Peer Fetcher of the node binary against a backend whose answers to
\* the requests of fetch_peers vary, on a store that does not fail
InitFetchCall ==
    /\ served = None
    /\ stable = TRUE
    /\ variant = "node"
    /\ catalogue = {}
    /\ nodes \in InitStores
    /\ Started
    /\ InitFetcher
    /\ InitReporter

SpecFetchCall == InitFetchCall /\ [][FetchCallNext]_vars

\* the process of either binary from the entry of main
InitLifecycle ==
    /\ Unsettled
    /\ variant \in Variants
    /\ catalogue = {}
    /\ nodes = <<>>
    /\ main_pc = "start"
    /\ probe_pc = "none"
    /\ connection = "untested"
    /\ fetch_task = "none"
    /\ report_task = "none"
    /\ server = "none"
    /\ fetch_ticks = 0
    /\ report_ticks = 0
    /\ shutdown_cause = "none"
    /\ last_fetch = NoFetch
    /\ InitFetcher
    /\ InitReporter

\* main runs on to its select, the selects are woken when a handle they
\* await completes, and main returns
SpecLifecycle ==
    /\ InitLifecycle
    /\ [][LifecycleNext]_vars
    /\ WF_vars(CoHostedServe)
    /\ WF_vars(ProbeSelect)
    /\ WF_vars(MainSelectHandle)
    /\ WF_vars(MainShutdown)

\* from here on no fetch and no store call fails
Stabilise ==
    /\ ~stable
    /\ stable' = TRUE
    /\ UNCHANGED <<variant, catalogue, served, lifecycle_vars, client_vars, fetcher_vars, reporter_vars>>

\* the lists a backend may return on every fetch: peers whose secret the
\* store may not have yet, also twice in one list with two secrets
ServedLists == {l \in FetchLists(SecretCatalogue) : Len(l) >= 1 /\ \A k \in 1..Len(l) : l[k].name = "a"}

\* stores of an earlier run: empty, or the row of a peer whose secret was not set then
ConvergeStores == {<<>>, <<SyncedNode(1, 1)>>}

\* the Peer Fetcher and the Reconciler against a backend that returns the
\* same list on every fetch, with failures that stop at some point
InitConverge ==
    /\ variant \in Variants
    /\ catalogue = {}
    /\ served \in {Some(l) : l \in ServedLists}
    /\ stable = FALSE
    /\ nodes \in ConvergeStores
    /\ Started
    /\ InitFetcher
    /\ InitReporter

ConvergeNext == FetcherNext \/ Stabilise

\* what the fetcher does at a tick and at the end of the loop
TickOrReturn == FetchFail \/ FetchOkReadFail \/ FetchOk \/ SyncReturn

\* the loop of sync_peers_to_db moves on to its next descriptor: a SyncStep
LoopAdvance == fpc = "sync" /\ idx <= Len(backend_peers) /\ idx' = idx + 1

\* the ticker fires and the loop goes round for ever
SpecConverge == InitConverge /\ [][ConvergeNext]_vars /\ WF_vars(TickOrReturn) /\ WF_idx(LoopAdvance)

\* ================================================================== claims
\* the correlation key of a row: the backend id its description encodes
CorrelationKey(n) == ExtractBackendId(n.description)

\* the loop of sync_peers_to_db has processed the whole fetched list
LoopDone == fpc = "sync" /\ idx > Len(backend_peers)

\* no store call of the cycle failed so far
CleanCycle == \A k \in 1..Len(effects) : effects[k].kind # "fault"

ReloadCount(id) == Cardinality({r \in 1..Len(reloads) : reloads[r] = id})

HasAddress(bp) == IsSome(bp.public_ip)

\* C1: no two LocalPeer rows carry the same correlation key, whatever lists
\* (backend ids repeated or not) the cycles reconciled.
C1_CorrelationUniqueness ==
    \A i, j \in 1..Len(nodes) :
        (i # j /\ IsSome(CorrelationKey(nodes[i])))
            => CorrelationKey(nodes[i]) # CorrelationKey(nodes[j])

\* C2: when a cycle over a list has completed with no store failure,
\* reconciling the same list again inserts no row, changes no persisted field
\* and issues no reload.
C2_IdempotentReconciliation ==
    (LoopDone /\ CleanCycle) =>
        LET again == SyncPeersToDb(variant, nodes, peer_metadata, backend_peers)
        IN again.nodes = nodes /\ again.reloads = <<>>

\* C3: no step removes a LocalPeer row: every row present before a step is
\* present, under the same local id, after it, so the store never shrinks.
C3_NoDeletion ==
    [][\A k \in 1..Len(nodes) :
          \E m \in 1..Len(nodes') : nodes'[m].id = nodes[k].id]_vars

\* C3 witness: a cycle over a list that omits the backend id of a stored row
\* has returned and both rows are still stored.
C3_Witness ==
    /\ fpc = "idle"
    /\ Len(nodes) = 2
    /\ \E k \in 1..2 : CorrelationKey(nodes[k]) = Some(1)
    /\ \E k \in 1..2 : CorrelationKey(nodes[k]) = Some(2)
    /\ DOMAIN peer_metadata = {1, 2}
    /\ peer_metadata[1].network_secret # peer_metadata[2].network_secret

\* C4: in a cycle without store failure, a descriptor that matches an existing
\* row and carries another secret than the row gets exactly one reload for
\* the row's local id in the cycle, and the row ends with the descriptor's secret.
C4_ReloadOnSecretChange ==
    (LoopDone /\ CleanCycle) =>
        \A k \in 1..Len(backend_peers) :
            LET bp == backend_peers[k]
                map == CurrentNodeMap(current_nodes)
                secret == UnwrapOr(bp.network_secret, "")
            IN (bp.id \in DOMAIN map /\ map[bp.id].network_secret # secret)
                => /\ ReloadCount(map[bp.id].id) = 1
                   /\ GetNodeById(nodes, map[bp.id].id)[1].network_secret = secret

C9_PersistenceErrorIsolation ==
    /\ [](fpc = "sync" =>
            /\ Len(effects) = idx - 1
            /\ Len(shadow_effects) = idx - 1
            /\ \A k \in 1..Len(effects) :
                  effects[k].kind # "fault" => effects[k] = shadow_effects[k])
    /\ [][(/\ fpc = "sync"
           /\ Len(effects') = Len(effects) + 1
           /\ effects'[Len(effects')].kind = "fault")
          => (fpc' = "sync" /\ idx' = idx + 1)]_vars

\* C9 witness: the first descriptor's store call failed and the second one,
\* with the same backend id, went on to update the row and reload it.
C9_Witness ==
    /\ LoopDone
    /\ Len(effects) = 2
    /\ effects[1].kind = "fault"
    /\ effects[2].kind = "update"
    /\ effects[2] = shadow_effects[2]
    /\ shadow_effects[1].kind = "update"

\* C10: the failure counter is the number of failures since the last success
\* modulo 5, so it stays in 0..4, and one warning was logged for every 5 of them.
C10_FailureCounter ==
    variant = "node" =>
        /\ consecutive_failures \in 0..4
        /\ consecutive_failures = fail_run % max_failures
        /\ warn_run = fail_run \div max_failures

\* C10 witness: ten failures in a row, two warnings, the counter back at 0.
C10_Witness ==
    variant = "node" /\ fail_run = 10 /\ warn_run = 2 /\ consecutive_failures = 0

\* the backend answered 401 to this call
Is401(resp) == resp.kind = "http" /\ resp.code = 401

\* this call failed and its error carries no 401/Unauthorized text
FailedNonAuth(resp) == ~ReportStatus(resp).ok /\ ~IsAuthError(ReportStatus(resp).msg)

\* the reporter has left the retry loop of a peer all of whose calls failed
\* with an error that is not an authentication failure
GaveUpNonAuth ==
    /\ rpc \in {"loop", "idle"}
    /\ attempts # <<>>
    /\ \A k \in 1..Len(attempts) : FailedNonAuth(attempts[k])

\* the row of a snapshot entry exists and its description yields a backend id
Resolvable(node_id) ==
    /\ IsSome(GetNodeById(nodes, node_id))
    /\ IsSome(ExtractBackendId(GetNodeById(nodes, node_id)[1].description))

\* C5: a call answered 401 is the last call for its peer in the cycle: the
\* reporter has left the retry loop and never re-enters it for that peer;
\* when the first call is the 401 one, retry_count stays at 1.
C5_RetryShortCircuit ==
    /\ \A k \in 1..Len(attempts) : Is401(attempts[k]) => k = Len(attempts)
    /\ (attempts # <<>> /\ Is401(attempts[Len(attempts)])) =>
          /\ rpc \in {"loop", "idle"}
          /\ (Len(attempts) = 1 => retry_count = 1)

\* C5 witness: the first call for a peer was answered 401 and the reporter
\* has moved on to the next position with retry_count 1.
C5_Witness ==
    /\ rpc = "loop"
    /\ Len(attempts) = 1
    /\ Is401(attempts[1])
    /\ retry_count = 1
    /\ outcomes # <<>>
    /\ outcomes[Len(outcomes)] = "unauthorized"

\* C6 as stated: when every call for a peer failed with a non-authentication
\* error and the reporter gave up, the delays slept were 2, 4 and 8 seconds.
C6_BackoffGrowth ==
    GaveUpNonAuth => sleeps = <<2, 4, 8>>

\* C6 amended: the k-th delay slept for a peer is 2^k seconds and there are
\* at most two; when every call failed with a non-authentication error, the
\* reporter gave up after three calls, having slept 2 and 4 seconds.
C6_BackoffGrowthAmended ==
    /\ Len(sleeps) <= 2
    /\ \A k \in 1..Len(sleeps) : sleeps[k] = 2 ^ k
    /\ GaveUpNonAuth => (Len(attempts) = 3 /\ sleeps = <<2, 4>> /\ retry_count = 3)

\* C6 witness: three calls failed with a server error or a timeout and the
\* reporter gave up on the peer.
C6_Witness ==
    /\ GaveUpNonAuth
    /\ Len(attempts) = 3
    /\ sleeps = <<2, 4>>
    /\ outcomes[Len(outcomes)] = "exhausted"

\* C7: when the for loop is over, every position of the snapshot was handled,
\* and every peer whose row was read and yields a backend id got at least one
\* report_status call, whatever happened to the peers before it.
C7_FailureIsolation ==
    /\ rpc = "loop" /\ ri > Len(all_statuses) =>
          /\ Len(calls) = Len(all_statuses)
          /\ \A k \in 1..Len(all_statuses) :
                (Resolvable(all_statuses[k].node_id) /\ outcomes[k] # "lookup_err")
                    => calls[k] >= 1
    /\ rpc = "idle" => all_statuses = <<>>

\* C7 witness: the retries for the first peer of the snapshot were exhausted
\* and the second peer was reported all the same.
C7_Witness ==
    /\ rpc = "loop"
    /\ ri > Len(all_statuses)
    /\ Len(all_statuses) = 2
    /\ outcomes[1] = "exhausted"
    /\ calls[1] = 3
    /\ calls[2] >= 1

\* C11: the fetcher task is never in an ended state: it is awaiting its tick
\* or reconciling, and whenever it awaits its tick the next fetch can be made.
C11_FetcherNeverStops ==
    /\ fpc \in {"idle", "sync"}
    /\ fpc = "idle" => ENABLED FetchOk

\* C11 witness: six fetches in a row have failed, the warning was logged and
\* the fetcher awaits its next tick, on which a fetch can succeed.
C11_Witness ==
    /\ fpc = "idle"
    /\ fail_run = 6
    /\ warn_run = IF variant = "node" THEN 1 ELSE 0
    /\ ENABLED FetchOk

\* the descriptor at position k is the last one of the list with its backend id
LastOfItsId(k) ==
    \A j \in (k + 1)..Len(backend_peers) : backend_peers[j].id # backend_peers[k].id

\* the row that the cycle's map gives for a backend id, as it is stored now
StoredRow(backend_id) ==
    GetNodeById(nodes, CurrentNodeMap(current_nodes)[backend_id].id)[1]

\* C12: when a cycle without store failure has processed a descriptor that
\* matches an existing row, the row's name, network name, secret and address
\* (host, port) are those of the descriptor (of the last one, when the list
\* carries the backend id more than once).
C12_LastWriteWins ==
    (LoopDone /\ CleanCycle) =>
        \A k \in 1..Len(backend_peers) :
            LET bp == backend_peers[k]
            IN (bp.id \in DOMAIN CurrentNodeMap(current_nodes) /\ LastOfItsId(k))
                => /\ StoredRow(bp.id).name = bp.name
                   /\ StoredRow(bp.id).network_name = UnwrapOr(bp.network_name, "default")
                   /\ StoredRow(bp.id).network_secret = UnwrapOr(bp.network_secret, "")
                   /\ HasAddress(bp) =>
                         /\ StoredRow(bp.id).host = ResolveAddress(bp.public_ip[1]).host
                         /\ StoredRow(bp.id).port = ResolveAddress(bp.public_ip[1]).port

\* C13: between cycles every row that carries a correlation key, that is
\* every row the Reconciler inserted, has its approval flag set.
C13_AutoApproval ==
    fpc = "idle" =>
        \A k \in 1..Len(nodes) : IsSome(CorrelationKey(nodes[k])) => nodes[k].is_approved

\* C14: no step changes the correlation key of a row that has one: the row
\* with the same local id carries the same backend id after the step.
C14_CorrelationKeyImmutable ==
    [][\A k \in 1..Len(nodes) : \A m \in 1..Len(nodes') :
          (IsSome(CorrelationKey(nodes[k])) /\ nodes'[m].id = nodes[k].id)
              => CorrelationKey(nodes'[m]) = CorrelationKey(nodes[k])]_vars

\* the backend id of the descriptor at position k occurs once in the list
OnceInList(k) ==
    \A j \in 1..Len(backend_peers) : j # k => backend_peers[j].id # backend_peers[k].id

\* the descriptor differs from the row read at the start of the cycle in the
\* display name and in nothing else the Reconciler compares
OnlyNameDiffers(bp, row) ==
    /\ row.name # bp.name
    /\ row.network_name = UnwrapOr(bp.network_name, "default")
    /\ row.network_secret = UnwrapOr(bp.network_secret, "")
    /\ row.description = FormatDesc(bp.id)

\* C15: when a cycle without store failure has processed a descriptor that
\* differs from its row only in the display name, the row carries the new
\* name and no reload was issued for it.
C15_CosmeticOnlyChange ==
    (LoopDone /\ CleanCycle) =>
        \A k \in 1..Len(backend_peers) :
            LET bp == backend_peers[k]
                map == CurrentNodeMap(current_nodes)
            IN (bp.id \in DOMAIN map /\ OnceInList(k) /\ OnlyNameDiffers(bp, map[bp.id]))
                => /\ StoredRow(bp.id).name = bp.name
                   /\ ReloadCount(map[bp.id].id) = 0

\* the secret the store holds for a descriptor without one
StoredSecret(bp) == UnwrapOr(bp.network_secret, "")

\* every descriptor of the served list that carries an address has a row
\* with its correlation key and its secret
Consistent ==
    \A k \in 1..Len(served[1]) :
        HasAddress(served[1][k]) =>
            \E m \in 1..Len(nodes) :
                /\ CorrelationKey(nodes[m]) = Some(served[1][k].id)
                /\ nodes[m].network_secret = StoredSecret(served[1][k])

\* no backend id occurs in the served list with two different secrets
OneSecretPerId ==
    \A j, k \in 1..Len(served[1]) :
        served[1][j].id = served[1][k].id
            => served[1][j].network_secret = served[1][k].network_secret

\* C16 as stated: once failures have stopped, the store becomes consistent
\* with the served list, whatever the list, and stays so.
C16_EventualConsistency == <>[](stable => Consistent)

\* C16 amended: once failures have stopped, the store becomes consistent with
\* a served list that gives every backend id one secret, and stays so.
C16_EventualConsistencyAmended == <>[]((stable /\ OneSecretPerId) => Consistent)

\* C16 witness: failures have stopped and a cycle over the served list has
\* just brought the stored secret of a row in line: the store is consistent.
C16_Witness ==
    /\ stable
    /\ OneSecretPerId
    /\ LoopDone
    /\ \E k \in 1..Len(effects) : effects[k].kind = "update" /\ effects[k].reload
    /\ Consistent

\* the positions of the snapshot whose entry is Healthy and whose record in
\* the registry `seen` has a last response time
HealthyWithRtt(seen) ==
    {k \in 1..Len(all_statuses) :
        /\ all_statuses[k].status = "Healthy"
        /\ all_statuses[k].node_id \in DOMAIN seen
        /\ IsSome(seen[all_statuses[k].node_id].rtt)}

\* the response time of position k in ticks, and in whole milliseconds
Ticks(seen, k) == seen[all_statuses[k].node_id].rtt[1]
Millis(seen, k) == Ticks(seen, k) \div 1000

RECURSIVE MillisSum(_, _)
MillisSum(seen, S) ==
    IF S = {} THEN 0
    ELSE LET k == CHOOSE x \in S : TRUE IN Millis(seen, k) + MillisSum(seen, S \ {k})

\* the ticks read for the healthy peers are exactly those of `raw`, one peer each
ReadExactly(seen, raw) ==
    \E H \in {HealthyWithRtt(seen)} :
        /\ Cardinality(H) = Cardinality(raw)
        /\ {Ticks(seen, k) : k \in H} = raw

\* C17: in aggregate mode the average is the integer quotient of the sum of
\* the healthy peers' latencies, each first divided by 1000, by their number,
\* and the maximum is the largest of these millisecond values; the average is
\* what the heartbeat carries; peers that are not Healthy count for neither;
\* raw latencies 5000, 7000, 9000 give average 7 and maximum 9.
C17_AggregateUnitConversion ==
    /\ rpc \in {"max", "report", "reported"} =>
         \E H \in {HealthyWithRtt(agg.avg_seen)} :
            /\ agg.avg_response_time =
                  IF H = {} THEN None
                  ELSE Some(MillisSum(agg.avg_seen, H) \div Cardinality(H))
            /\ ReadExactly(agg.avg_seen, {5000, 7000, 9000}) => agg.avg_response_time = Some(7)
    /\ rpc \in {"report", "reported"} =>
         \E H \in {HealthyWithRtt(agg.max_seen)} :
            /\ agg.max_response_time =
                  IF H = {} THEN None
                  ELSE Some(CHOOSE m \in {Millis(agg.max_seen, k) : k \in H} :
                                \A k \in H : Millis(agg.max_seen, k) <= m)
            /\ ReadExactly(agg.max_seen, {5000, 7000, 9000}) => agg.max_response_time = Some(9)
    /\ rpc = "reported" =>
         \A k \in 1..Len(agg.sent) :
             agg.sent[k].latency_ms = UnwrapOr(agg.avg_response_time, 0)

\* C17 witness: a heartbeat was sent for three healthy peers whose latencies
\* were read as 5000, 7000 and 9000 ticks; average 7, maximum 9.
C17_Witness ==
    /\ rpc = "reported"
    /\ ReadExactly(agg.avg_seen, {5000, 7000, 9000})
    /\ ReadExactly(agg.max_seen, {5000, 7000, 9000})
    /\ agg.avg_response_time = Some(7)
    /\ agg.max_response_time = Some(9)
    /\ Len(agg.sent) = 1 /\ agg.sent[1].latency_ms = 7

\* C18: every heartbeat of an aggregate cycle carries the status "online",
\* whatever the health of the peers in the snapshot.
C18_AggregateAlwaysOnline ==
    /\ \A k \in 1..Len(agg.sent) : agg.sent[k].status = "online"
    /\ rpc = "reported" => Len(agg.sent) >= 1

\* C18 witness: a heartbeat with status "online" was sent in a cycle whose
\* snapshot holds peers none of which is Healthy.
C18_Witness ==
    /\ rpc = "reported"
    /\ agg.total_nodes >= 2
    /\ agg.healthy_nodes = 0
    /\ Len(agg.sent) = 1 /\ agg.sent[1].status = "online"

\* the last response time of the peer at position ri, as the registry has it now
LastLatency ==
    IF all_statuses[ri].node_id \in DOMAIN health
    THEN health[all_statuses[ri].node_id].rtt
    ELSE None

\* C19: the report built for a peer in per-peer mode has status "online"
\* exactly when the peer is Healthy in the snapshot, and as latency the
\* peer's last latency in ticks divided by 1000, 0 when none is known; the
\* report stays as built through all attempts and backoff sleeps.
C19_PerPeerReportShape ==
    [][/\ (rpc = "loop" /\ rpc' = "attempt") =>
            /\ (cur'.status = "online") <=> (all_statuses[ri].status = "Healthy")
            /\ cur'.status \in {"online", "offline"}
            /\ cur'.latency_ms = IF IsSome(LastLatency) THEN LastLatency[1] \div 1000 ELSE 0
       /\ rpc \in {"attempt", "sleep"} => cur' = cur]_vars

\* C19 witness: a peer whose status is Unknown and whose last latency is
\* 1999 ticks is being reported as "offline" with latency 1.
C19_Witness ==
    /\ rpc = "attempt"
    /\ all_statuses[ri].status = "Unknown"
    /\ cur.status = "offline"
    /\ cur.latency_ms = 1
    /\ Len(attempts) >= 1

\* the backend id that the row of local id `node_id` encodes
RowBackendId(node_id) == ExtractBackendId(GetNodeById(nodes, node_id)[1].description)

\* C20: in per-peer mode a peer of the snapshot whose row is missing or whose
\* description yields no backend id is passed over without any report_status
\* call; a call is only ever made under the backend id its row encodes; and
\* when the loop is over the peers after a skipped one have been reported.
C20_UnresolvableSkipped ==
    /\ \A k \in 1..Len(calls) :
          ~Resolvable(all_statuses[k].node_id) =>
              /\ calls[k] = 0
              /\ outcomes[k] \in {"missing", "no_token", "lookup_err"}
    /\ rpc \in {"attempt", "sleep"} =>
          /\ Resolvable(all_statuses[ri].node_id)
          /\ cur.backend_peer_id = RowBackendId(all_statuses[ri].node_id)[1]
    /\ (rpc = "loop" /\ ri > Len(all_statuses)) =>
          \A j, k \in 1..Len(all_statuses) :
              (j < k /\ ~Resolvable(all_statuses[j].node_id)
                     /\ Resolvable(all_statuses[k].node_id) /\ outcomes[k] # "lookup_err")
                  => calls[k] >= 1

\* C20 witness: the first peer of the snapshot has a row without a usable
\* token and got no call, the second peer was reported.
C20_Witness ==
    /\ rpc = "loop"
    /\ ri > Len(all_statuses)
    /\ Len(all_statuses) = 2
    /\ outcomes[1] = "no_token"
    /\ calls[1] = 0
    /\ outcomes[2] = "ok"
    /\ calls[2] >= 1

\* C21: after a failed startup test_connection of the co-hosted probe no task
\* has ticked or ever ticks, and the monitoring API that was started keeps
\* serving: it stops only when the process is told to stop or of its own.
C21_StartupConnectionTest ==
    [][(variant = "probe" /\ connection = "failed") =>
          /\ fetch_ticks' = 0 /\ report_ticks' = 0
          /\ fetch_task' = "none" /\ report_task' = "none"
          /\ (server = "serving" /\ server' # "serving") =>
                 (server' = "ended" \/ shutdown_cause = "ctrl_c")]_vars

\* one of the two tasks has ended and the other one still runs
OneTaskEnded ==
    \/ fetch_task = "ended" /\ report_task = "running"
    \/ report_task = "ended" /\ fetch_task = "running"

ShuttingDown == main_pc \in {"shutdown", "exited"}

\* C22 as stated: in no reachable state has one of the two tasks ended while
\* the other runs and the process is not shutting down.
C22_NoSilentTaskDeath == ~(OneTaskEnded /\ ~ShuttingDown)

\* C22 amended: whenever one of the two tasks has ended, the process comes to
\* shut down, and once main has returned no task runs any more.
C22_NoSilentTaskDeathAmended ==
    /\ (fetch_task = "ended" \/ report_task = "ended") ~> ShuttingDown
    /\ [](main_pc = "exited" => (fetch_task # "running" /\ report_task # "running"))

\* C22 witness: the process has exited because a task ended; the task that
\* was still running went with it.
C22_Witness ==
    /\ main_pc = "exited"
    /\ shutdown_cause \in {"fetch", "report", "probe"}
    /\ \/ fetch_task = "ended" /\ report_task = "cancelled"
       \/ report_task = "ended" /\ fetch_task = "cancelled"
    /\ fetch_ticks + report_ticks >= 1

\* an answer the call received has a non-success status or an unparsable body
BadAnswer(a) == a.kind = "http" /\ (~IsSuccess(a.code) \/ ~a.parses)

\* C23: fetch_peers returns an error whenever an answer it received has a
\* non-success status or an unparsable body; a list it returns has a
\* descriptor for every node the backend listed; so the counter is reset and
\* the Reconciler is entered on a complete list only.
C23_FetchPeersErrorUniformity ==
    last_fetch.called =>
        /\ (BadAnswer(last_fetch.status)
             \/ \E k \in 1..Len(last_fetch.infos) : BadAnswer(last_fetch.infos[k]))
                => ~last_fetch.ok
        /\ last_fetch.ok =>
              \A k \in 1..Len(last_fetch.status.node_ids) :
                  \E j \in 1..Len(last_fetch.peers) :
                      last_fetch.peers[j].id = last_fetch.status.node_ids[k]
        /\ (fpc = "sync" /\ idx = 1) =>
              /\ consecutive_failures = 0
              /\ \A k \in 1..Len(last_fetch.status.node_ids) :
                    \E j \in 1..Len(backend_peers) :
                        backend_peers[j].id = last_fetch.status.node_ids[k]

\* the backend answered with a 2xx status, a body that parses and success = true
Accepted(resp) == resp.kind = "http" /\ IsSuccess(resp.code) /\ resp.parses /\ resp.success

\* the iteration for the peer at hand has just ended with outcome `o`
EndsWith(o) == Len(outcomes') = Len(outcomes) + 1 /\ outcomes'[Len(outcomes')] = o

\* C24: a call of report_status is taken as ok exactly when the backend
\* answered 2xx with a body that parses and says success = true; every other
\* answer, and no answer, is an error that counts as a failed attempt; the
\* error for a 401 answer is taken as unauthorized.
C24_ReportStatusResult ==
    [][(rpc = "attempt" /\ Len(attempts') = Len(attempts) + 1) =>
          LET resp == attempts'[Len(attempts')]
          IN /\ Accepted(resp) <=> EndsWith("ok")
             /\ Accepted(resp) <=> (retry_count' = retry_count)
             /\ ~Accepted(resp) => retry_count' = retry_count + 1
             /\ (resp.kind = "http" /\ resp.code = 401) => EndsWith("unauthorized")]_vars

\* C24 witness: the backend answered 200 with success = false; the call
\* counted as a failed attempt and the reporter sleeps before the next one.
C24_Witness ==
    /\ rpc = "sleep"
    /\ attempts = <<HttpResponse(200, <<>>, TRUE, FALSE)>>
    /\ retry_count = 1

\* three descriptors served during one run: those of one peer, or those of
\* two peers one of which changes its secret or loses its address
ReorderCatalogues ==
    {{d \in SecretCatalogue : d.id = 1},
     {BackendPeer(1, "a", None, None, Some(AddrHostPort)),
      BackendPeer(1, "a", None, Some("s1"), Some(AddrHostOnly)),
      BackendPeer(2, "a", None, None, Some(AddrHostPort))},
     {BackendPeer(1, "a", None, None, Some(AddrHostPort)),
      BackendPeer(2, "a", None, None, Some(AddrHostPort)),
      BackendPeer(2, "a", None, Some("s1"), None)}}

\* the Peer Fetcher and the Reconciler of either binary while the backend
\* serves three descriptors, so that one peer may be listed twice with field
\* values that both differ from the stored ones; every fetch and every store
\* call succeeds
InitReorder ==
    /\ served = None
    /\ stable = TRUE
    /\ variant \in Variants
    /\ catalogue \in ReorderCatalogues
    /\ nodes \in InitStores
    /\ Started
    /\ InitFetcher
    /\ InitReporter

ReorderNext == FetchOk \/ SyncStep \/ SyncReturn

SpecReorder == InitReorder /\ [][ReorderNext]_vars

\* the lists that hold the descriptors of `peers` in another order
Reorderings(peers) ==
    {[k \in 1..Len(peers) |-> peers[o[k]]] : o \in Orderings(1..Len(peers))}

\* the rows by what they persist, the store-assigned local id left aside
Records(ns) == {[ns[k] EXCEPT !.id = 0] : k \in 1..Len(ns)}

\* the local ids a reload was signalled for
ReloadSet(rl) == {rl[k] : k \in 1..Len(rl)}

\* reconciling the fetched list in any order gives the same rows and reloads
OrderIndependent ==
    \E this \in {SyncPeersToDb(variant, current_nodes, EmptyCache, backend_peers)} :
        /\ LoopDone => (shadow.nodes = this.nodes /\ shadow.reloads = this.reloads)
        /\ \A p \in Reorderings(backend_peers) :
              \E that \in {SyncPeersToDb(variant, current_nodes, EmptyCache, p)} :
                  /\ Records(that.nodes) = Records(this.nodes)
                  /\ ReloadSet(that.reloads) = ReloadSet(this.reloads)

\* no backend id occurs in the fetched list with two different descriptors
OneDescriptorPerId ==
    \A j, k \in 1..Len(backend_peers) :
        backend_peers[j].id = backend_peers[k].id => backend_peers[j] = backend_peers[k]

\* C25 as stated: whatever the fetched batch, reconciling its descriptors in
\* any order leaves the same records and signals the same reloads.
C25_OrderIndependence == fpc = "sync" => OrderIndependent

\* C25 amended: the same for a batch that gives every backend id one descriptor.
C25_OrderIndependenceAmended == (fpc = "sync" /\ OneDescriptorPerId) => OrderIndependent

\* C25 witness: a cycle is over in which a row was inserted for one
\* descriptor and the secret of the row of another peer was updated, with a
\* reload; the other order gives the same.
C25_Witness ==
    /\ LoopDone
    /\ CleanCycle
    /\ Len(backend_peers) = 2
    /\ backend_peers[1].id # backend_peers[2].id
    /\ \E j, k \in 1..2 : effects[j].kind = "insert" /\ effects[k].kind = "update" /\ effects[k].reload
    /\ ReloadSet(reloads) # {}
    /\ OrderIndependent

\* `snap` lists records of the registry `h`: no id twice, every entry with the
\* status its record has in `h`
SnapshotOf(h, snap) ==
    /\ \A j, k \in 1..Len(snap) : snap[j].node_id = snap[k].node_id => j = k
    /\ \A k \in 1..Len(snap) :
          /\ snap[k].node_id \in DOMAIN h
          /\ snap[k].status = h[snap[k].node_id].status

ReturnedThisCycle(id) ==
    \E k \in 1..Len(effects) : effects[k].target = id /\ effects[k].kind \in {"noop", "update"}

\* C27: a reload that failed is issued again: at the end of a cycle that
\* reconciled a peer whose last reload call failed, a reload call for that
\* peer was made in this cycle, so the prober does not stay on the old secret.
C27_StaleSecretsDoNotPersist ==
    LoopDone =>
        \A id \in reload_failed : ReturnedThisCycle(id) => id \in ReloadSet(reloads)

\* the ways the retry loop of a resolved peer ends
ReportedOutcomes == {"ok", "unauthorized", "exhausted"}

\* C28: for every peer the reporter has entered the retry loop for, between one
\* and three report_status calls are made in the cycle, and a successful call
\* is the last one: the reporter has left the retry loop for that peer.
C28_BoundedAttempts ==
    /\ Len(attempts) <= 3
    /\ rpc = "sleep" => Len(attempts) \in 1..2
    /\ \A k \in 1..Len(outcomes) :
          outcomes[k] \in ReportedOutcomes => calls[k] \in 1..3
    /\ \A k \in 1..Len(attempts) :
          ReportStatus(attempts[k]).ok => (k = Len(attempts) /\ rpc \in {"loop", "idle"})

\* C28 witness: a cycle is over in which one peer was reported at the first
\* call and another at the third, after two failed calls.
C28_Witness ==
    /\ rpc = "loop"
    /\ ri > Len(all_statuses)
    /\ \E j, k \in 1..Len(outcomes) :
          /\ outcomes[j] = "ok" /\ calls[j] = 1
          /\ outcomes[k] = "ok" /\ calls[k] = 3
    /\ Len(attempts) = 3
    /\ ReportStatus(attempts[3]).ok

\* C29: an aggregate cycle makes one report_status call, whatever its result:
\* once the call is made the heartbeat sent in the cycle is that one, before it
\* none is, and the only step the reporter takes after the call, failed or
\* not, is back to its ticker.
C29_AggregateOncePerCycle ==
    [][/\ rpc' = "reported" => (Len(agg'.sent) = 1 /\ agg'.result \in {"ok", "err"})
       /\ rpc' # "reported" => agg'.sent = <<>>
       /\ (rpc = "reported" /\ rpc' # "reported") => rpc' = "idle"]_vars

\* C29 witness: the one call of an aggregate cycle failed and the cycle is
\* at its end.
C29_Witness ==
    /\ rpc = "reported"
    /\ agg.result = "err"
    /\ Len(agg.sent) = 1

\* C30: in the node binary, once a descriptor is processed the cache entry
\* of its LocalPeer is that descriptor: the row it was matched with, whatever
\* the comparison and the store update gave, or the row just inserted for it.
C30_CacheMaintenance ==
    [][(variant = "node" /\ Len(effects') = Len(effects) + 1) =>
          \E bp \in {backend_peers[idx]}, map \in {NodeMap(variant, current_nodes)} :
              /\ bp.id \in DOMAIN map =>
                    /\ map[bp.id].id \in DOMAIN peer_metadata'
                    /\ peer_metadata'[map[bp.id].id] = bp
              /\ Len(nodes') = Len(nodes) + 1 =>
                    /\ nodes'[Len(nodes')].id \in DOMAIN peer_metadata'
                    /\ peer_metadata'[nodes'[Len(nodes')].id] = bp]_vars

\* ---- C31
\* the characters a served public_ip is made of, and the texts of up to
\* MaxAddrLen of them
AddrChars == {"h", ":", "7", "-"}
Addresses == SeqsUpTo(AddrChars, MaxAddrLen)

\* the Peer Fetcher and the Reconciler of either binary on an empty store,
\* the backend serving one peer under some address; no call fails
InitAddress ==
    /\ served = None
    /\ stable = TRUE
    /\ variant \in Variants
    /\ catalogue \in {{BackendPeer(1, "a", None, None, Some(a))} : a \in Addresses}
    /\ nodes = <<>>
    /\ Started
    /\ InitFetcher
    /\ InitReporter

SpecAddress == InitAddress /\ [][ReorderNext]_vars

\* an optional sign followed by one or more digits
IsIntLiteral(s) ==
    \E d \in {IF Len(s) > 0 /\ s[1] \in {"+", "-"} THEN Tail(s) ELSE s} :
        Len(d) >= 1 /\ \A k \in 1..Len(d) : IsDigit(d[k])

RECURSIVE PlaceSum(_, _)
PlaceSum(d, k) ==
    IF k > Len(d) THEN 0 ELSE DigitVal(d[k]) * 10 ^ (Len(d) - k) + PlaceSum(d, k + 1)

\* the number an integer literal denotes
LiteralValue(s) ==
    IF s[1] = "-" THEN 0 - PlaceSum(Tail(s), 1)
    ELSE IF s[1] = "+" THEN PlaceSum(Tail(s), 1) ELSE PlaceSum(s, 1)

\* host and port are what the address `a` resolves to
AddressResolved(a, host, port) ==
    /\ \A k \in 1..Len(host) : host[k] # ":"
    /\ IF \A k \in 1..Len(a) : a[k] # ":"
       THEN host = a /\ port = 11010
       ELSE \E c \in {CHOOSE c \in 1..Len(a) : a[c] = ":" /\ \A j \in 1..(c - 1) : a[j] # ":"} :
              \E rest \in {SubSeq(a, c + 1, Len(a))} :
                 /\ host = SubSeq(a, 1, c - 1)
                 /\ port = IF IsIntLiteral(rest) THEN LiteralValue(rest) ELSE 11010

\* C31: the row inserted for a new peer has as host the address up to its
\* first colon, or the whole address when it has none, and as port the integer
\* written after that colon, or 11010 when there is no colon or no integer
\* after it; the host holds no colon.
C31_AddressResolution ==
    \A k \in 1..Len(effects) :
        effects[k].kind = "insert" =>
            AddressResolved(backend_peers[k].public_ip[1],
                            effects[k].row[1].host, effects[k].row[1].port)

\* C31 witness: a peer served as "h:h7" was inserted with host "h" and the
\* default port.
C31_Witness ==
    /\ LoopDone
    /\ Len(effects) >= 1
    /\ effects[1].kind = "insert"
    /\ backend_peers[1].public_ip = Some(<<"h", ":", "h", "7">>)
    /\ nodes[1].host = <<"h">>
    /\ nodes[1].port = 11010

\* ---- C32
\* a field of a JSON object that serde reads with #[serde(default)]
OptionalField(json, key) == IF key \in DOMAIN json THEN Some(json[key]) ELSE None

\* serde_json::from_str::<BackendPeer>: id, name and status are required,
\* the other fields default to None
DeserializePeer(json) ==
    IF {"id", "name", "status"} \subseteq DOMAIN json
    THEN Some(BackendPeer(json["id"], json["name"],
                          OptionalField(json, "network_name"),
                          OptionalField(json, "network_secret"),
                          OptionalField(json, "public_ip")))
    ELSE None

\* the bodies a backend may hold for node 1: with or without the namespace
\* fields, and one without the status
PeerJsons ==
    {("id" :> 1) @@ ("name" :> "a") @@ ("public_ip" :> AddrHostPort) @@ st @@ nn @@ ns :
        st \in {"status" :> "online"},
        nn \in {[x \in {} |-> 0], "network_name" :> "default", "network_name" :> "n1"},
        ns \in {[x \in {} |-> 0], "network_secret" :> "", "network_secret" :> "s1"}}
    \cup {("id" :> 1) @@ ("name" :> "a") @@ ("public_ip" :> AddrHostPort)}

\* the descriptors these bodies deserialize to
JsonPeers == {DeserializePeer(j)[1] : j \in {b \in PeerJsons : IsSome(DeserializePeer(b))}}

\* the Peer Fetcher and the Reconciler of either binary while the backend
\* serves one or two of these descriptors; no call fails
InitAbsent ==
    /\ served = None
    /\ stable = TRUE
    /\ variant \in Variants
    /\ catalogue \in {S \in SUBSET JsonPeers : Cardinality(S) \in 1..2}
    /\ nodes \in InitStores
    /\ Started
    /\ InitFetcher
    /\ InitReporter

SpecAbsent == InitAbsent /\ [][ReorderNext]_vars

\* the body carries neither network_secret nor network_name
NoNamespaceFields(json) == "network_secret" \notin DOMAIN json /\ "network_name" \notin DOMAIN json

\* the descriptor has neither field
BothAbsent(bp) == bp.network_secret = None /\ bp.network_name = None

\* the row is as the insert of `bp` left it: empty secret, namespace "default"
AsCreatedFor(row, bp) ==
    /\ row.name = bp.name
    /\ row.network_secret = ""
    /\ row.network_name = "default"
    /\ row.description = FormatDesc(bp.id)

\* C32: a body without network_secret and network_name deserializes to a
\* descriptor with both absent; the row inserted for such a descriptor has
\* the empty secret and the namespace "default"; and when such a descriptor
\* meets the row it created, nothing is written and no reload is issued.
C32_AbsentNamespaceFields ==
    /\ \A j \in PeerJsons :
          (NoNamespaceFields(j) /\ "status" \in DOMAIN j) =>
              (IsSome(DeserializePeer(j)) /\ BothAbsent(DeserializePeer(j)[1]))
    /\ \A k \in 1..Len(effects) :
          \E bp \in {backend_peers[k]}, map \in {CurrentNodeMap(current_nodes)} :
              BothAbsent(bp) =>
                  /\ effects[k].kind = "insert" =>
                        /\ effects[k].row[1].network_secret = ""
                        /\ effects[k].row[1].network_name = "default"
                  /\ (bp.id \in DOMAIN map /\ AsCreatedFor(map[bp.id], bp)) =>
                        (effects[k].kind = "noop" /\ ~effects[k].reload)

\* C32 witness: a descriptor without the two fields was inserted in an
\* earlier cycle and has now met its row again: nothing was written.
C32_Witness ==
    /\ LoopDone
    /\ Len(backend_peers) = 1
    /\ BothAbsent(backend_peers[1])
    /\ backend_peers[1].id \in DOMAIN CurrentNodeMap(current_nodes)
    /\ AsCreatedFor(CurrentNodeMap(current_nodes)[backend_peers[1].id], backend_peers[1])
    /\ effects[1].kind = "noop"
    /\ nodes = current_nodes
    /\ reloads = <<>>

\* ---- C33
\* backend ids at and near the ends of the i32 range and around zero, two to
\* a catalogue
IdPairs ==
    {<<I32Min, I32Max>>, <<0 - 1, 1>>, <<0 - 10, 10>>, <<0, 0 - I32Max>>}

\* the descriptor named "a" carries the first id of the pair, the one named
\* "b" the second; the backend serves the two in one of both orders
PairLists(p) ==
    LET a == BackendPeer(p[1], "a", None, None, Some(AddrHostPort))
        b == BackendPeer(p[2], "b", None, None, Some(AddrHostOnly))
    IN {<<a, b>>, <<b, a>>}

\* the node binary on an empty store, with a backend that serves the same
\* list at every fetch: the Reconciler, the prober and the per-peer Status
\* Reporter run side by side
InitRoundTrip ==
    /\ served \in {Some(l) : l \in UNION {PairLists(p) : p \in IdPairs}}
    /\ stable = TRUE
    /\ variant = "node"
    /\ catalogue = {}
    /\ nodes = <<>>
    /\ Started
    /\ InitFetcher
    /\ InitReporter

\* the prober is followed up to the first probe outcome it records
RoundTripNext ==
    \/ FetchOk \/ SyncStep \/ SyncReturn
    \/ (DOMAIN health = {} /\ ProbeWrite)
    \/ ReportTick \/ ReportCycleEnd \/ ResolvePeer \/ AttemptReport \/ BackoffElapsed

SpecRoundTrip == InitRoundTrip /\ [][RoundTripNext]_vars

\* the served descriptor that created a row: the name of a row is written at
\* its creation only
CreatorOf(row) ==
    CHOOSE bp \in {served[1][k] : k \in 1..Len(served[1])} : bp.name = row.name

\* C33: the backend id decoded from the description of a row the Reconciler
\* created equals the id of the descriptor it was created for, negative ids
\* and the ends of the i32 range included, and the report of a peer carries
\* the backend id of the descriptor that created the reported row.
C33_CorrelationRoundTrip ==
    /\ \A k \in 1..Len(effects) :
          effects[k].kind = "insert" =>
              ExtractBackendId(effects[k].row[1].description) = Some(backend_peers[k].id)
    /\ \A k \in 1..Len(nodes) : CorrelationKey(nodes[k]) = Some(CreatorOf(nodes[k]).id)
    /\ rpc \in {"attempt", "sleep"} =>
          cur.backend_peer_id
              = CreatorOf(GetNodeById(nodes, all_statuses[ri].node_id)[1]).id

\* C33 witness: a report is about to be sent under the id i32::MIN, decoded
\* from the row the Reconciler created for the descriptor with that id.
C33_Witness ==
    /\ rpc = "attempt"
    /\ cur.backend_peer_id = I32Min
    /\ served[1][2].id = I32Min
    /\ served[1][2].name = "a"
    /\ GetNodeById(nodes, all_statuses[ri].node_id)[1].name = "a"

\* ---- C34
\* C34: in every aggregate cycle, probe writes between the reads included,
\* the average is present exactly when the maximum is, and the average is
\* not above the maximum.
C34_AggregateSelfConsistent ==
    rpc \in {"report", "reported"} =>
        /\ IsSome(agg.avg_response_time) <=> IsSome(agg.max_response_time)
        /\ IsSome(agg.avg_response_time) =>
               agg.avg_response_time[1] <= agg.max_response_time[1]

\* ---- C35
\* the report of a peer whose probe gave outcome `o`
CoherentWith(o) ==
    /\ cur.status = ReportedStatus(o.status)
    /\ cur.latency_ms = LatencyMs(o.rtt)

\* C35: the status and the latency of a per-peer report are those of one
\* probe outcome, also when the prober records outcomes of the peer between
\* the reporter's tick and the moment the peer is reported.
C35_PerPeerCoherence ==
    rpc \in {"attempt", "sleep"} => \E o \in ProbeOutcomes : CoherentWith(o)

\* ---- C36
\* a row without a correlation token, or whose correlation key is the backend
\* id of no descriptor of the fetched list
OutsideFetchedList(row) ==
    \E key \in {CorrelationKey(row)} :
        \/ ~IsSome(key)
        \/ \A j \in 1..Len(backend_peers) : backend_peers[j].id # key[1]

\* C36: no step of a reconciliation cycle changes a field of a row that has
\* no correlation token or whose correlation key is not a backend id of the
\* fetched list, and none issues a reload for such a row.
C36_ReconciliationFrame ==
    [][\A k \in 1..Len(nodes) :
          OutsideFetchedList(nodes[k]) =>
              /\ k <= Len(nodes') /\ nodes'[k] = nodes[k]
              /\ Len(reloads') > Len(reloads) => reloads'[Len(reloads')] # nodes[k].id]_vars

\* ---- C37
\* C37: a cycle whose read of the current rows fails inserts and updates no
\* row, leaves the cache alone and issues no reload; the error reaches the
\* fetcher loop, which logs it, and the fetcher task is back at its ticker.
C37_StoreReadFailure ==
    [][(fpc = "idle" /\ sync_failed' /\ fail_run' = 0) =>
          /\ nodes' = nodes
          /\ peer_metadata' = peer_metadata
          /\ reloads' = reloads
          /\ reload_failed' = reload_failed
          /\ effects' = effects
          /\ fpc' = "idle"
          /\ fetch_task' = "running"]_vars

\* C37 witness: after a cycle that stored rows and cached their descriptors,
\* a later cycle failed at the read of the rows; the fetcher is at its ticker
\* with rows and cache in place.
C37_Witness ==
    /\ sync_failed
    /\ fpc = "idle"
    /\ fetch_task = "running"
    /\ Len(nodes) = 2
    /\ DOMAIN peer_metadata # {}
    /\ fail_run = 0

\* ---- C38
\* the backend answered with the status 401 Unauthorized
Unauthorized(resp) == resp.kind = "http" /\ resp.code = 401

\* C38: a report_status call that fails for another reason than a 401
\* answer is not taken for an authentication failure: a backoff sleep and
\* another call follow it, unless it was the last call allowed.
C38_OnlyAuthShortCircuits ==
    [][(rpc = "attempt" /\ Len(attempts') = Len(attempts) + 1) =>
          \E resp \in {attempts'[Len(attempts')]} :
              (~ReportStatus(resp).ok /\ ~Unauthorized(resp)) =>
                  /\ rpc' = "loop" => outcomes'[Len(outcomes')] # "unauthorized"
                  /\ Len(attempts') < max_retries => rpc' = "sleep"]_vars

\* ---- C39
\* the per-peer Status Reporter and a prober that records its outcomes
\* between the cycles
CycleNext ==
    \/ (rpc = "idle" /\ ProbeWrite)
    \/ ReportTick \/ ReportCycleEnd \/ ResolvePeer \/ AttemptReport \/ BackoffElapsed

\* every call the reporter awaits returns: a store lookup, a report_status
\* call (bounded by the timeout of the client) and a backoff sleep each
\* complete, and the loop moves on; nothing is assumed of the prober or of
\* the ticker
SpecReportFair ==
    /\ InitReport
    /\ [][CycleNext]_vars
    /\ WF_vars(ResolvePeer)
    /\ WF_vars(AttemptReport)
    /\ WF_vars(BackoffElapsed)
    /\ WF_vars(ReportCycleEnd)

\* C39: every reporting cycle that has started comes to its end, whatever
\* the snapshot and however the reports fail, and the reporter is back at
\* its ticker.
C39_CycleTerminates == (rpc # "idle") ~> (rpc = "idle")

\* C39 witness: a cycle over a snapshot of two peers has gone through three
\* failed calls and two backoff sleeps for the first peer and is in the
\* retry loop of the second.
C39_Witness ==
    /\ Len(all_statuses) = 2
    /\ ri = 2
    /\ rpc = "sleep"
    /\ Len(calls) = 1 /\ calls[1] = 3
    /\ outcomes[1] = "exhausted"
====
